---- MODULE Spec2Model ----
(***************************************************************************)
(* A model of the PERColator slab: the v1 array order book with its        *)
(* place_order / cancel_order / commit_fill instructions, and the          *)
(* reservation (hold) protocol of matching/commit.rs.                      *)
(***************************************************************************)
EXTENDS Integers, Sequences, FiniteSets, TLC

(***************************************************************************)
(* Bounds of the model.                                                    *)
(***************************************************************************)
\* Book depth per side used by the model; stands for MAX_BIDS = MAX_ASKS = 19
\* (orderbook.rs:10,13) and for the 19 slots of orders_to_remove
\* (commit_fill.rs:64), which the code keeps equal.
MaxDepth == 2
\* Largest order id the model hands out (next_order_id stops below it).
MaxOrderId == 3
\* Largest seqno the model lets the slab reach.
MaxSeqno == 3
\* Capacities of the order, slice, reservation and position pools of SlabState.
MaxOrders == 2
MaxSlices == 2
MaxResv == 2
MaxPositions == 2
\* Hold ids handed out by reserve, and order ids handed out to resting orders.
MaxHoldId == 2
MaxRestingId == 2

(***************************************************************************)
(* Program constants.                                                      *)
(***************************************************************************)
PX_SCALE == 1000000
BPS_DENOM == 10000
TAKER_FEE_BPS == 10

ROUTER_ID == "router"
Signers == {"router", "intruder"}
\* Resting orders belong to alice; cancel_order is also tried by mallory.
Owners == {"alice"}
CancelCallers == {"alice", "mallory"}
Sides == {"Buy", "Sell"}
\* Caller-supplied prices and quantities of well-formed calls.
PlacePrices == 1 .. 2
PlaceQtys == {2}
FillQtys == {1, 3}
LimitPrices == 1 .. 2
\* Values of the Clock sysvar (unix_timestamp); the clock never runs backwards.
Timestamps == 0 .. 1
\* Well-formed traffic: <<owner, side, price, qty>> of place_order and
\* <<side, qty, limit_px, receipt account usable>> of commit_fill.
PlaceOrderArgs == Owners \X Sides \X PlacePrices \X PlaceQtys
CommitFillArgs == Sides \X FillQtys \X LimitPrices \X {TRUE}
\* Traffic with malformed calls: one call for each validation that can fail,
\* next to the few well-formed calls that build and consume a book.
MixedPlaceOrderArgs ==
    {<<"alice", "Buy", 1, 2>>, <<"alice", "Sell", 1, 2>>,
     <<"alice", "Buy", 0, 2>>, <<"alice", "Sell", 1, 0>>,
     <<"alice", "Buy", -1, 2>>, <<"alice", "Sell", 1, -1>>}
MixedCommitFillArgs ==
    {<<"Buy", 1, 1, TRUE>>, <<"Sell", 3, 1, TRUE>>,
     <<"Buy", 1, 1, FALSE>>, <<"Sell", 3, 1, FALSE>>,
     <<"Buy", 0, 1, TRUE>>, <<"Sell", 1, 0, TRUE>>}

VARIABLES
    bids,            \* slab.book.bids[0 .. num_bids)
    asks,            \* slab.book.asks[0 .. num_asks)
    next_order_id,   \* slab.book.next_order_id
    seqno,           \* slab.header.seqno
    receipt,         \* the FillReceipt account
    clock,           \* Clock sysvar unix_timestamp at the latest place_order
    last,            \* the last instruction: its inputs and outcome
    slab,            \* the SlabState of matching/commit.rs
    resv_last,       \* the last call on the SlabState: its inputs and outcome
    consumed,        \* hold ids committed and hold ids cancelled so far
    router,          \* the router's Vault, Escrow and Cap accounts
    cap_last,        \* the last capability call: its inputs and outcome
    portfolio,       \* the exposures of a Portfolio, exposures[0 .. count)
    margin_last,     \* the last margin call: its inputs and outcome
    funding,         \* a market's funding index, two positions, an instrument
    fund_last,       \* the last funding call and its outcome
    fstate,          \* the fee-distribution State with its accounts
    fee_last,        \* the last fee call: its inputs and outcome
    portfolios,      \* the router's portfolios of the liquidatee and the liquidator
    liquidate_last,  \* the router's last liquidate call and its outcome
    venue,           \* the slab a liquidation is executed on
    liq_last,        \* the slab's last liquidation call and its outcome
    tox,             \* the slab of a batch, its epoch and the tax charged in it
    tox_last,        \* the last call on the slab of the batch
    venue_pnl,       \* a VenuePnl account
    pnl_last,        \* the last call on the VenuePnl and its outcome
    engine,          \* the risk engine with one user account
    engine_last,     \* the last call on the risk engine and its outcome
    warm,            \* the safety model's State: vault and users with their warmup
    warm_last,       \* the last transition of the safety model
    route_in,        \* the route a user asks for: requests, side, target and limit
    route_out,       \* what process_multi_reserve made of the route
    pos_in,          \* a position and a fill: old quantity, entry price, delta, price
    pos_out,         \* the position after update_position and what was realized
    shared,          \* the SlabState of one taker and two makers
    shared_last,     \* the last call on that slab and its outcome
    exp_in,          \* a portfolio and the splits of an execution
    exp_out,         \* what update_exposures_verified returned and left
    touch,           \* the fee state with two accounts whose profit moves
    touch_last       \* the last step on it: the account, its snapshot before and its vested profit

bookVars == <<bids, asks, next_order_id, seqno, receipt, clock, last>>
slabVars == <<slab, resv_last, consumed>>
capVars == <<router, cap_last>>
marginVars == <<portfolio, margin_last>>
fundingVars == <<funding, fund_last>>
feeVars == <<fstate, fee_last>>
routerLiqVars == <<portfolios, liquidate_last>>
liqVars == <<venue, liq_last>>
toxVars == <<tox, tox_last>>
pnlVars == <<venue_pnl, pnl_last>>
engineVars == <<engine, engine_last>>
warmVars == <<warm, warm_last>>
routeVars == <<route_in, route_out>>
positionVars == <<pos_in, pos_out>>
sharedVars == <<shared, shared_last>>
exposureVars == <<exp_in, exp_out>>
touchVars == <<touch, touch_last>>

\* What the instructions of one program leave alone: the other programs' accounts.
notBook == <<slabVars, capVars, marginVars, fundingVars, feeVars, routerLiqVars, liqVars, toxVars, pnlVars, engineVars, warmVars, routeVars, positionVars, sharedVars, exposureVars, touchVars>>
notSlab == <<bookVars, capVars, marginVars, fundingVars, feeVars, routerLiqVars, liqVars, toxVars, pnlVars, engineVars, warmVars, routeVars, positionVars, sharedVars, exposureVars, touchVars>>
notCap == <<bookVars, slabVars, marginVars, fundingVars, feeVars, routerLiqVars, liqVars, toxVars, pnlVars, engineVars, warmVars, routeVars, positionVars, sharedVars, exposureVars, touchVars>>
notMargin == <<bookVars, slabVars, capVars, fundingVars, feeVars, routerLiqVars, liqVars, toxVars, pnlVars, engineVars, warmVars, routeVars, positionVars, sharedVars, exposureVars, touchVars>>
notFunding == <<bookVars, slabVars, capVars, marginVars, feeVars, routerLiqVars, liqVars, toxVars, pnlVars, engineVars, warmVars, routeVars, positionVars, sharedVars, exposureVars, touchVars>>
notFee == <<bookVars, slabVars, capVars, marginVars, fundingVars, routerLiqVars, liqVars, toxVars, pnlVars, engineVars, warmVars, routeVars, positionVars, sharedVars, exposureVars, touchVars>>
notRouterLiq == <<bookVars, slabVars, capVars, marginVars, fundingVars, feeVars, liqVars, toxVars, pnlVars, engineVars, warmVars, routeVars, positionVars, sharedVars, exposureVars, touchVars>>
notLiq == <<bookVars, slabVars, capVars, marginVars, fundingVars, feeVars, routerLiqVars, toxVars, pnlVars, engineVars, warmVars, routeVars, positionVars, sharedVars, exposureVars, touchVars>>
notTox == <<bookVars, slabVars, capVars, marginVars, fundingVars, feeVars, routerLiqVars, liqVars, pnlVars, engineVars, warmVars, routeVars, positionVars, sharedVars, exposureVars, touchVars>>
notPnl == <<bookVars, slabVars, capVars, marginVars, fundingVars, feeVars, routerLiqVars, liqVars, toxVars, engineVars, warmVars, routeVars, positionVars, sharedVars, exposureVars, touchVars>>
notEngine == <<bookVars, slabVars, capVars, marginVars, fundingVars, feeVars, routerLiqVars, liqVars, toxVars, pnlVars, warmVars, routeVars, positionVars, sharedVars, exposureVars, touchVars>>
notWarm == <<bookVars, slabVars, capVars, marginVars, fundingVars, feeVars, routerLiqVars, liqVars, toxVars, pnlVars, engineVars, routeVars, positionVars, sharedVars, exposureVars, touchVars>>
notRoute == <<bookVars, slabVars, capVars, marginVars, fundingVars, feeVars, routerLiqVars, liqVars, toxVars, pnlVars, engineVars, warmVars, positionVars, sharedVars, exposureVars, touchVars>>
notPosition == <<bookVars, slabVars, capVars, marginVars, fundingVars, feeVars, routerLiqVars, liqVars, toxVars, pnlVars, engineVars, warmVars, routeVars, sharedVars, exposureVars, touchVars>>
notShared == <<bookVars, slabVars, capVars, marginVars, fundingVars, feeVars, routerLiqVars, liqVars, toxVars, pnlVars, engineVars, warmVars, routeVars, positionVars, exposureVars, touchVars>>
notExposure == <<bookVars, slabVars, capVars, marginVars, fundingVars, feeVars, routerLiqVars, liqVars, toxVars, pnlVars, engineVars, warmVars, routeVars, positionVars, sharedVars, touchVars>>
notTouch == <<bookVars, slabVars, capVars, marginVars, fundingVars, feeVars, routerLiqVars, liqVars, toxVars, pnlVars, engineVars, warmVars, routeVars, positionVars, sharedVars, exposureVars>>

(***************************************************************************)
(* Order and BookArea (state/orderbook.rs).                                *)
(***************************************************************************)
Order(order_id, owner, side, price, qty, timestamp) ==
    [order_id |-> order_id, owner |-> owner, side |-> side, price |-> price,
     qty |-> qty, timestamp |-> timestamp]

\* Mutant: bids compared like asks (ascending price on both sides).
InsertBefore_ascending(order, o, side) ==
    order.price < o.price
    \/ (order.price = o.price /\ order.timestamp < o.timestamp)

\* Mutant: at equal price an order goes ahead of those with the same timestamp.
InsertBefore_lifo(order, o, side) ==
    IF side = "Buy"
    THEN order.price > o.price
         \/ (order.price = o.price /\ order.timestamp <= o.timestamp)
    ELSE order.price < o.price
         \/ (order.price = o.price /\ order.timestamp <= o.timestamp)

\* The slot before which insert_sorted puts the order: the first resting
\* order it beats on price, or on timestamp at equal price; else the end.
InsertBefore(order, o, side) ==
    IF side = "Buy"
    THEN order.price > o.price
         \/ (order.price = o.price /\ order.timestamp < o.timestamp)
    ELSE order.price < o.price
         \/ (order.price = o.price /\ order.timestamp < o.timestamp)

InsertPos(orders, order, side) ==
    LET hits == {i \in 1 .. Len(orders) : InsertBefore(order, orders[i], side)}
    IN  IF hits = {} THEN Len(orders) + 1
        ELSE CHOOSE i \in hits : \A j \in hits : i <= j

insert_sorted(orders, order, side) ==
    LET pos == InsertPos(orders, order, side)
    IN  SubSeq(orders, 1, pos - 1) \o <<order>> \o SubSeq(orders, pos, Len(orders))

\* find_order: position of the first order with this id, 0 when absent.
find_order(orders, order_id) ==
    LET hits == {i \in 1 .. Len(orders) : orders[i].order_id = order_id}
    IN  IF hits = {} THEN 0 ELSE CHOOSE i \in hits : \A j \in hits : i <= j

\* remove_order (free function): shift the tail left over slot idx.
remove_at(orders, idx) ==
    SubSeq(orders, 1, idx - 1) \o SubSeq(orders, idx + 1, Len(orders))

\* BookArea::remove_order: bids are searched first, then asks.
book_remove_order(b, a, order_id) ==
    IF find_order(b, order_id) # 0
    THEN [ok |-> TRUE, bids |-> remove_at(b, find_order(b, order_id)), asks |-> a]
    ELSE IF find_order(a, order_id) # 0
    THEN [ok |-> TRUE, bids |-> b, asks |-> remove_at(a, find_order(a, order_id))]
    ELSE [ok |-> FALSE, bids |-> b, asks |-> a]

\* BookArea::insert_order: the id is taken before the capacity check.
book_insert_order(b, a, nid, side, owner, price, qty, timestamp) ==
    LET order == Order(nid, owner, side, price, qty, timestamp)
        \* wrapping_add(1) on a u64; the model stops at MaxOrderId, far below 2^64
        nid2 == nid + 1
        orders == IF side = "Buy" THEN b ELSE a
    IN  IF Len(orders) >= MaxDepth
        THEN [ok |-> FALSE, bids |-> b, asks |-> a, next_order_id |-> nid2,
              order_id |-> 0]
        ELSE [ok |-> TRUE,
              bids |-> IF side = "Buy" THEN insert_sorted(b, order, side) ELSE b,
              asks |-> IF side = "Sell" THEN insert_sorted(a, order, side) ELSE a,
              next_order_id |-> nid2, order_id |-> nid]

\* SlabHeader::increment_seqno (a u32; the model stops at MaxSeqno)
increment_seqno(s) == s + 1

(***************************************************************************)
(* match_against_book (instructions/commit_fill.rs).                       *)
(***************************************************************************)
\* Mutant: the limit is not checked.
price_acceptable_any(side, price, limit_px) == TRUE

\* Buy: ask price must be <= limit.  Sell: bid price must be >= limit.
price_acceptable(side, price, limit_px) ==
    IF side = "Buy" THEN price <= limit_px ELSE price >= limit_px

\* Mutant: the whole resting order is taken.
fill_qty_whole(remaining, order_qty) == order_qty

\* fill_qty = remaining.min(order.qty)
fill_qty(remaining, order_qty) ==
    IF remaining < order_qty THEN remaining ELSE order_qty

\* The walk over the contra side, one resting order per step.
RECURSIVE match_loop(_, _, _, _)
match_loop(acc, i, side, limit_px) ==
    IF i > Len(acc.orders) \/ acc.remaining <= 0
    THEN acc
    ELSE LET order == acc.orders[i]
         IN  IF ~price_acceptable(side, order.price, limit_px)
             THEN acc
             ELSE LET fq == fill_qty(acc.remaining, order.qty)
                      left == order.qty - fq
                  IN  match_loop(
                        [orders |-> [acc.orders EXCEPT ![i].qty = left],
                         remaining |-> acc.remaining - fq,
                         total_notional |-> acc.total_notional + fq * order.price,
                         total_filled |-> acc.total_filled + fq,
                         to_remove |->
                            IF left = 0 /\ Len(acc.to_remove) < MaxDepth
                            THEN Append(acc.to_remove, order.order_id)
                            ELSE acc.to_remove,
                         fills |-> Append(acc.fills,
                                     [order_id |-> order.order_id,
                                      price |-> order.price, qty |-> fq])],
                        i + 1, side, limit_px)

\* Remove the fully filled orders; a failed removal is ignored.
RECURSIVE remove_filled(_, _, _)
remove_filled(b, a, ids) ==
    IF ids = <<>> THEN [bids |-> b, asks |-> a]
    ELSE LET r == book_remove_order(b, a, Head(ids))
         IN  remove_filled(r.bids, r.asks, Tail(ids))

match_against_book(b, a, side, qty, limit_px) ==
    LET contra == IF side = "Buy" THEN a ELSE b
        acc == match_loop([orders |-> contra, remaining |-> qty,
                           total_notional |-> 0, total_filled |-> 0,
                           to_remove |-> <<>>, fills |-> <<>>],
                          1, side, limit_px)
        b1 == IF side = "Buy" THEN b ELSE acc.orders
        a1 == IF side = "Buy" THEN acc.orders ELSE a
        rem == remove_filled(b1, a1, acc.to_remove)
    IN  [bids |-> rem.bids, asks |-> rem.asks,
         filled_qty |-> acc.total_filled,
         vwap_px |-> IF acc.total_filled > 0
                     THEN acc.total_notional \div acc.total_filled ELSE 0,
         fills |-> acc.fills]

(***************************************************************************)
(* Instructions.                                                           *)
(***************************************************************************)
\* The last instruction: its arguments and its outcome.
NoLast == [op |-> "init", err |-> "Ok", owner |-> "none", signer |-> "none",
           side |-> "none", price |-> 0, qty |-> 0, expected_seqno |-> 0,
           order_id |-> 0, receipt_ok |-> TRUE, fills |-> <<>>,
           filled_qty |-> 0, vwap_px |-> 0]

InitBook ==
    /\ bids = <<>>
    /\ asks = <<>>
    /\ next_order_id = 1
    /\ seqno = 0
    /\ receipt = [seqno |-> 0, filled_qty |-> 0, vwap_px |-> 0, notional |-> 0,
                  fee |-> 0]
    /\ clock = 0
    /\ last = NoLast

\* process_place_order
place_order_result(b, a, nid, s, owner, side, price, qty, timestamp) ==
    IF price <= 0
    THEN [err |-> "InvalidPrice", bids |-> b, asks |-> a, next_order_id |-> nid,
          seqno |-> s, order_id |-> 0]
    ELSE IF qty <= 0
    THEN [err |-> "InvalidQuantity", bids |-> b, asks |-> a,
          next_order_id |-> nid, seqno |-> s, order_id |-> 0]
    ELSE LET r == book_insert_order(b, a, nid, side, owner, price, qty, timestamp)
         IN  IF ~r.ok
             THEN [err |-> "PoolFull", bids |-> r.bids, asks |-> r.asks,
                   next_order_id |-> r.next_order_id, seqno |-> s,
                   order_id |-> 0]
             ELSE [err |-> "Ok", bids |-> r.bids, asks |-> r.asks,
                   next_order_id |-> r.next_order_id,
                   seqno |-> increment_seqno(s), order_id |-> r.order_id]

PlaceOrderCall(owner, side, price, qty, now) ==
    LET r == place_order_result(bids, asks, next_order_id, seqno, owner,
                                side, price, qty, now)
    IN  /\ r.next_order_id <= MaxOrderId + 1
        /\ r.seqno <= MaxSeqno
        /\ bids' = r.bids
        /\ asks' = r.asks
        /\ next_order_id' = r.next_order_id
        /\ seqno' = r.seqno
        /\ last' = [NoLast EXCEPT !.op = "place_order", !.err = r.err,
                      !.owner = owner, !.side = side, !.price = price,
                      !.qty = qty, !.order_id = r.order_id]
        /\ clock' = now
        /\ UNCHANGED <<receipt, notBook>>

\* What Clock::get() returns to a place_order: the time of the previous
\* place_order or a later one (the clock is read by no other instruction).
ClockNow == {clock, clock + 1} \cap Timestamps

PlaceOrder ==
    \E args \in PlaceOrderArgs, now \in ClockNow :
        PlaceOrderCall(args[1], args[2], args[3], args[4], now)

\* process_cancel_order: the order must rest in the book and belong to the
\* caller; it is removed and the seqno incremented.
cancel_order_result(b, a, s, owner, order_id) ==
    LET ib == find_order(b, order_id)
        ia == find_order(a, order_id)
        found == ib # 0 \/ ia # 0
        order == IF ib # 0 THEN b[ib] ELSE a[ia]
    IN  IF ~found
        THEN [err |-> "OrderNotFound", bids |-> b, asks |-> a, seqno |-> s]
        ELSE IF order.owner # owner
        THEN [err |-> "Unauthorized", bids |-> b, asks |-> a, seqno |-> s]
        ELSE LET r == book_remove_order(b, a, order_id)
             IN  [err |-> "Ok", bids |-> r.bids, asks |-> r.asks,
                  seqno |-> increment_seqno(s)]

CancelOrderCall(owner, order_id) ==
    LET r == cancel_order_result(bids, asks, seqno, owner, order_id)
    IN  /\ r.seqno <= MaxSeqno
        /\ bids' = r.bids
        /\ asks' = r.asks
        /\ seqno' = r.seqno
        /\ last' = [NoLast EXCEPT !.op = "cancel_order", !.err = r.err,
                      !.owner = owner, !.order_id = order_id]
        /\ UNCHANGED <<next_order_id, receipt, clock, notBook>>

\* An owner cancels one of the resting orders.
CancelOrder ==
    \E order_id \in {(bids \o asks)[i].order_id : i \in 1 .. Len(bids \o asks)} :
        CancelOrderCall("alice", order_id)

\* The router-authority check of process_commit_fill.
router_authorized(signer) == signer = ROUTER_ID

\* Mutant: the seqno is not checked.
seqno_matches_unchecked(s, expected_seqno) == TRUE

\* The TOCTOU check of process_commit_fill.
seqno_matches(s, expected_seqno) == s = expected_seqno

\* process_commit_fill.  receipt_ok: whether the receipt account can be
\* borrowed as a FillReceipt (the borrow is fallible and comes after matching).
commit_fill_result(b, a, s, rc, signer, expected_seqno, side, qty, limit_px, receipt_ok) ==
    LET same(e) == [err |-> e, bids |-> b, asks |-> a, seqno |-> s,
                    receipt |-> rc, fills |-> <<>>, filled_qty |-> 0,
                    vwap_px |-> 0]
    IN  IF ~router_authorized(signer) THEN same("Unauthorized")
        ELSE IF ~seqno_matches(s, expected_seqno) THEN same("SeqnoMismatch")
        ELSE IF qty <= 0 THEN same("InvalidQuantity")
        ELSE IF limit_px <= 0 THEN same("InvalidPrice")
        ELSE LET m == match_against_book(b, a, side, qty, limit_px)
                 notional == (m.filled_qty * m.vwap_px) \div PX_SCALE
                 fee == (notional * TAKER_FEE_BPS) \div BPS_DENOM
             IN  IF m.filled_qty = 0
                 THEN [err |-> "InsufficientLiquidity", bids |-> m.bids,
                       asks |-> m.asks, seqno |-> s, receipt |-> rc,
                       fills |-> m.fills, filled_qty |-> 0, vwap_px |-> 0]
                 ELSE IF ~receipt_ok
                 THEN [err |-> "InvalidAccountData", bids |-> m.bids,
                       asks |-> m.asks, seqno |-> s, receipt |-> rc,
                       fills |-> m.fills, filled_qty |-> m.filled_qty,
                       vwap_px |-> m.vwap_px]
                 ELSE [err |-> "Ok", bids |-> m.bids, asks |-> m.asks,
                       seqno |-> increment_seqno(s),
                       receipt |-> [seqno |-> s, filled_qty |-> m.filled_qty,
                                    vwap_px |-> m.vwap_px,
                                    notional |-> notional, fee |-> fee],
                       fills |-> m.fills, filled_qty |-> m.filled_qty,
                       vwap_px |-> m.vwap_px]

CommitFillCall(signer, expected_seqno, side, qty, limit_px, receipt_ok) ==
    LET r == commit_fill_result(bids, asks, seqno, receipt, signer,
                                expected_seqno, side, qty, limit_px, receipt_ok)
    IN  /\ r.seqno <= MaxSeqno
        /\ bids' = r.bids
        /\ asks' = r.asks
        /\ seqno' = r.seqno
        /\ receipt' = r.receipt
        /\ last' = [NoLast EXCEPT !.op = "commit_fill", !.err = r.err,
                      !.signer = signer, !.side = side, !.price = limit_px,
                      !.qty = qty, !.expected_seqno = expected_seqno,
                      !.receipt_ok = (r.filled_qty = 0 \/ receipt_ok),
                      !.fills = r.fills,
                      !.filled_qty = r.filled_qty, !.vwap_px = r.vwap_px]
        /\ UNCHANGED <<next_order_id, clock, notBook>>

\* The router commits a fill against the seqno it has just read.
CommitFill ==
    \E args \in CommitFillArgs :
        CommitFillCall(ROUTER_ID, seqno, args[1], args[2], args[3], args[4])

(***************************************************************************)
(* The reservation protocol (matching/commit.rs) over SlabState.           *)
(*                                                                         *)
(* SlabState, its pools, the order, slice, reservation and position        *)
(* records and matching/reserve.rs are not among the sources; they are     *)
(* modelled from the way commit.rs uses them.  One instrument, one epoch.  *)
(***************************************************************************)
\* u32::MAX, the end of a linked list and "no index".
NIL == 0

OrderIdxs == 1 .. MaxOrders
SliceIdxs == 1 .. MaxSlices
ResvIdxs == 1 .. MaxResv
PositionIdxs == 1 .. MaxPositions

\* Accounts: one that takes (reserves and commits), one that makes.
Takers == {1}
Makers == {2}
AccountIdxs == Takers \cup Makers

\* Arguments of the calls.  Makers rest asks, the taker reserves buys.
RestingSides == {"Sell"}
RestingPrices == {2000}
RestingQtys == {2}
ReserveSides == {"Buy"}
ReserveQtys == {1, 3}
\* Deadlines stored by reserve, and the current_ts a commit is called with:
\* at the deadline, and after it.
Expiries == {1}
CommitTimes == {1, 2}
\* Index prices of the instrument: 2% apart, beyond the kill band.
IndexPrices == {100, 102}

\* SlabHeader::new(.., -5, 20, ..) of create_test_slab, with the kill band
\* of test_kill_band_exceeded and the tax of test_arg_tax_calculation_*.
header ==
    [maker_fee |-> -5, taker_fee |-> 20, kill_band_bps |-> 50,
     as_fee_k |-> 50, jit_penalty_on |-> FALSE]

\* instruments[0].batch_open_ms of create_test_slab.
batch_open_ms == 0

FreeOrder ==
    [used |-> FALSE, order_id |-> 0, account_idx |-> 0, side |-> "none",
     price |-> 0, qty |-> 0, reserved_qty |-> 0, created_ms |-> 0]
FreeSlice == [used |-> FALSE, order_idx |-> NIL, qty |-> 0, next |-> NIL]
FreeReservation ==
    [used |-> FALSE, hold_id |-> 0, account_idx |-> 0, side |-> "none",
     expiry_ms |-> 0, committed |-> FALSE, slice_head |-> NIL,
     reserve_oracle_px |-> 0]
FreePosition == [used |-> FALSE, account_idx |-> 0, qty |-> 0, entry_px |-> 0]
FreeAggressorEntry ==
    [used |-> FALSE, buy_qty |-> 0, buy_notional |-> 0, sell_qty |-> 0,
     sell_notional |-> 0]

\* Pool::get / Pool::get_mut return Some(item) for an index in range whose
\* slot is allocated, None otherwise.
pool_get(pool, i) == i \in DOMAIN pool /\ pool[i].used

\* Pool::alloc: a free slot, or None (NIL) when the pool is exhausted.
pool_alloc(pool) ==
    LET free == {i \in DOMAIN pool : ~pool[i].used}
    IN  IF free = {} THEN NIL ELSE CHOOSE i \in free : \A j \in free : i <= j

\* Pool::free: the slot returns to the free list.
pool_free(pool, i, zero) == [pool EXCEPT ![i] = zero]

Min(x, y) == IF x < y THEN x ELSE y

saturating_sub(a, b) == IF a > b THEN a - b ELSE 0
mul_u64(a, b) == a * b
calculate_vwap(notional, qty) == IF qty = 0 THEN 0 ELSE notional \div qty
calculate_pnl(qty, entry_px, price) == qty * (price - entry_px)
Abs(x) == IF x < 0 THEN -x ELSE x

\* The element of a one-element set.  Only({F(v) : v \in {e}}) is F(e) with e
\* evaluated once.
Only(set) == CHOOSE v \in set : TRUE

InitSlabState ==
    [orders |-> [i \in OrderIdxs |-> FreeOrder],
     slices |-> [i \in SliceIdxs |-> FreeSlice],
     reservations |-> [i \in ResvIdxs |-> FreeReservation],
     positions |-> [i \in PositionIdxs |-> FreePosition],
     cash |-> [a \in AccountIdxs |-> 0],
     aggressor_ledger |-> [a \in AccountIdxs |-> FreeAggressorEntry],
     trade_count |-> 0,
     index_price |-> 100,
     header |-> header,
     batch_open_ms |-> batch_open_ms,
     next_hold_id |-> 1,
     next_order_id |-> 1]

\* calculate_fee
calculate_fee(notional, fee_bps) ==
    IF fee_bps >= 0
    THEN (notional * fee_bps) \div BPS_DENOM
    ELSE (notional * (-fee_bps)) \div BPS_DENOM

\* find_reservation: the first allocated reservation with this hold_id.
find_reservation(S, hold_id) ==
    LET hits == {i \in DOMAIN S.reservations : pool_get(S.reservations, i)
                                    /\ S.reservations[i].hold_id = hold_id}
    IN  IF hits = {} THEN NIL ELSE CHOOSE i \in hits : \A j \in hits : i <= j

expired_never(current_ts, expiry_ms) == FALSE

\* commit: "if current_ts > resv.expiry_ms"
expired(current_ts, expiry_ms) == current_ts > expiry_ms

already_committed_never(resv) == FALSE

\* commit and cancel: "if resv.committed"
already_committed(resv) == resv.committed

check_kill_band_never(S, reserve_oracle_px) == TRUE

\* check_kill_band; TRUE for Ok(()), FALSE for Err(KillBandExceeded).
check_kill_band(S, reserve_oracle_px) ==
    LET current_oracle_px == S.index_price
        delta == IF current_oracle_px > reserve_oracle_px
                 THEN current_oracle_px - reserve_oracle_px
                 ELSE reserve_oracle_px - current_oracle_px
        price_change_bps == (delta * BPS_DENOM) \div reserve_oracle_px
    IN  S.header.kill_band_bps = 0 \/ ~(price_change_bps > S.header.kill_band_bps)

apply_jit_penalty_never(S, order_created_ms, open_ms, base_maker_fee_bps) ==
    base_maker_fee_bps

\* apply_jit_penalty
apply_jit_penalty(S, order_created_ms, open_ms, base_maker_fee_bps) ==
    IF ~S.header.jit_penalty_on \/ order_created_ms < open_ms
    THEN base_maker_fee_bps
    ELSE IF base_maker_fee_bps < 0 THEN 0 ELSE base_maker_fee_bps

\* The position of an account in the instrument: the walk of update_position
\* along the account's position list, which holds one position per instrument.
find_position(S, account_idx) ==
    LET hits == {p \in PositionIdxs : pool_get(S.positions, p)
                                        /\ S.positions[p].account_idx = account_idx}
    IN  IF hits = {} THEN NIL ELSE CHOOSE p \in hits : \A q \in hits : p <= q

\* update_position (with remove_position for a closed position).
update_position(S, account_idx, qty_delta, price) ==
    LET pos_idx == find_position(S, account_idx)
    IN  IF pos_idx # NIL
        THEN LET old_qty == S.positions[pos_idx].qty
                 old_entry_px == S.positions[pos_idx].entry_px
                 new_qty == old_qty + qty_delta
                 pnl == calculate_pnl(old_qty, old_entry_px, price)
             IN  IF new_qty = 0
                 THEN [err |-> "Ok",
                       slab |-> [S EXCEPT !.cash[account_idx] = @ + pnl,
                                          !.positions = pool_free(@, pos_idx, FreePosition)]]
                 ELSE IF (old_qty > 0 /\ new_qty > 0) \/ (old_qty < 0 /\ new_qty < 0)
                 THEN LET abs_old == Abs(old_qty)
                          abs_delta == Abs(qty_delta)
                          new_notional == mul_u64(abs_old, old_entry_px)
                                            + mul_u64(abs_delta, price)
                          new_entry_px == calculate_vwap(new_notional, abs_old + abs_delta)
                      IN  [err |-> "Ok",
                           slab |-> [S EXCEPT !.positions[pos_idx].entry_px = new_entry_px,
                                              !.positions[pos_idx].qty = new_qty]]
                 ELSE [err |-> "Ok",
                       slab |-> [S EXCEPT !.cash[account_idx] = @ + pnl,
                                          !.positions[pos_idx].qty = new_qty,
                                          !.positions[pos_idx].entry_px = price]]
        ELSE IF qty_delta # 0
        THEN LET p == pool_alloc(S.positions)
             IN  IF p = NIL
                 THEN [err |-> "PoolFull", slab |-> S]
                 ELSE [err |-> "Ok",
                       slab |-> [S EXCEPT !.positions[p] =
                                    [used |-> TRUE, account_idx |-> account_idx,
                                     qty |-> qty_delta, entry_px |-> price]]]
        ELSE [err |-> "Ok", slab |-> S]

\* execute_trade: the taker's position, then the maker's, then the trade record.
execute_trade(S, taker_account_idx, maker_account_idx, side, qty, price) ==
    LET taker_qty == IF side = "Buy" THEN qty ELSE -qty
    IN  Only({
            IF t.err # "Ok" THEN t
            ELSE Only({
                    IF m.err # "Ok" THEN m
                    ELSE [err |-> "Ok",
                          slab |-> [m.slab EXCEPT !.trade_count = @ + 1]]
                    : m \in {update_position(t.slab, maker_account_idx,
                                              -taker_qty, price)}})
            : t \in {update_position(S, taker_account_idx, taker_qty, price)}})

\* update_aggressor_ledger (with find_or_create_aggressor_entry; the ledger
\* has room for the entry of every account of the model).
update_aggressor_ledger(S, account_idx, side, qty, notional) ==
    LET entry == S.aggressor_ledger[account_idx]
    IN  [S EXCEPT !.aggressor_ledger[account_idx] =
            IF side = "Buy"
            THEN [entry EXCEPT !.used = TRUE, !.buy_qty = @ + qty,
                               !.buy_notional = @ + notional]
            ELSE [entry EXCEPT !.used = TRUE, !.sell_qty = @ + qty,
                               !.sell_notional = @ + notional]]

\* calculate_arg_tax
calculate_arg_tax(S, account_idx) ==
    LET entry == S.aggressor_ledger[account_idx]
        overlap == IF entry.buy_notional < entry.sell_notional
                   THEN entry.buy_notional ELSE entry.sell_notional
    IN  IF entry.used /\ overlap > 0
        THEN (overlap * S.header.as_fee_k) \div BPS_DENOM
        ELSE 0

\* execute_slices: the loop over the reservation's slice list.  An error
\* returns at once, with the slab as the slices executed so far left it.
RECURSIVE execute_slices(_, _, _, _, _, _, _)
execute_slices(S, curr_slice_idx, taker_account_idx, side, total_qty, total_notional, total_fee) ==
    IF curr_slice_idx = NIL
    THEN [err |-> "Ok", slab |-> S, filled_qty |-> total_qty,
          notional |-> total_notional, fee |-> total_fee]
    ELSE IF ~pool_get(S.slices, curr_slice_idx)
    THEN [err |-> "InvalidReservation", slab |-> S, filled_qty |-> total_qty,
          notional |-> total_notional, fee |-> total_fee]
    ELSE IF ~pool_get(S.orders, S.slices[curr_slice_idx].order_idx)
    THEN [err |-> "OrderNotFound", slab |-> S, filled_qty |-> total_qty,
          notional |-> total_notional, fee |-> total_fee]
    ELSE LET slice == S.slices[curr_slice_idx]
             order_idx == slice.order_idx
             qty == slice.qty
             order == S.orders[order_idx]
             maker_account_idx == order.account_idx
             price == order.price
             notional == mul_u64(qty, price)
             taker_fee == calculate_fee(notional, S.header.taker_fee)
             adjusted_maker_fee_bps ==
                 apply_jit_penalty(S, order.created_ms, S.batch_open_ms, S.header.maker_fee)
             maker_fee == calculate_fee(notional, adjusted_maker_fee_bps)
             new_qty == saturating_sub(order.qty, qty)
             ledger_updated(T) ==
                 update_aggressor_ledger(T, taker_account_idx, side, qty, notional)
             maker_charged(T) ==
                 [T EXCEPT !.cash[maker_account_idx] =
                      IF adjusted_maker_fee_bps >= 0
                      THEN @ - maker_fee ELSE @ + maker_fee]
             order_filled(T) ==
                 [T EXCEPT !.orders =
                      IF new_qty = 0
                      THEN pool_free(@, order_idx, FreeOrder)
                      ELSE [@ EXCEPT ![order_idx].qty = new_qty]]
         IN  Only({
                 IF t.err # "Ok"
                 THEN [err |-> t.err, slab |-> t.slab, filled_qty |-> total_qty,
                       notional |-> total_notional, fee |-> total_fee]
                 ELSE Only({
                         execute_slices(S3, slice.next, taker_account_idx, side,
                                        total_qty + qty, total_notional + notional,
                                        total_fee + taker_fee)
                         : S3 \in {order_filled(maker_charged(ledger_updated(t.slab)))}})
                 : t \in {execute_trade(S, taker_account_idx, maker_account_idx,
                                        side, qty, price)}})

unreserve_skip(order, qty) == order

\* free_slices: "order.reserved_qty = order.reserved_qty.saturating_sub(qty)"
unreserve(order, qty) ==
    [order EXCEPT !.reserved_qty = saturating_sub(@, qty)]

\* free_slices: the loop over the slice list.
RECURSIVE free_slices(_, _)
free_slices(S, curr_idx) ==
    IF curr_idx = NIL
    THEN [err |-> "Ok", slab |-> S]
    ELSE IF ~pool_get(S.slices, curr_idx)
    THEN [err |-> "InvalidReservation", slab |-> S]
    ELSE LET slice == S.slices[curr_idx]
             S1 == IF pool_get(S.orders, slice.order_idx)
                   THEN [S EXCEPT !.orders[slice.order_idx] = unreserve(@, slice.qty)]
                   ELSE S
         IN  Only({free_slices(S2, slice.next)
                   : S2 \in {[S1 EXCEPT !.slices = pool_free(@, curr_idx, FreeSlice)]}})

\* commit
commit(S, hold_id, current_ts) ==
    LET resv_idx == find_reservation(S, hold_id)
        resv == S.reservations[resv_idx]
        arg_taxed(T) ==
            LET arg_tax == calculate_arg_tax(T, resv.account_idx)
            IN  IF arg_tax > 0
                THEN [T EXCEPT !.cash[resv.account_idx] = @ - arg_tax]
                ELSE T
        marked_committed(T) == [T EXCEPT !.reservations[resv_idx].committed = TRUE]
    IN  IF resv_idx = NIL
        THEN [err |-> "ReservationNotFound", slab |-> S, filled_qty |-> 0]
        ELSE IF expired(current_ts, resv.expiry_ms)
        THEN [err |-> "ReservationExpired", slab |-> S, filled_qty |-> 0]
        ELSE IF already_committed(resv)
        THEN [err |-> "InvalidReservation", slab |-> S, filled_qty |-> 0]
        ELSE IF ~check_kill_band(S, resv.reserve_oracle_px)
        THEN [err |-> "KillBandExceeded", slab |-> S, filled_qty |-> 0]
        ELSE Only({
                IF x.err # "Ok"
                THEN [err |-> x.err, slab |-> x.slab, filled_qty |-> 0]
                ELSE Only({
                        Only({[err |-> f.err, slab |-> f.slab,
                               filled_qty |-> x.filled_qty]
                              : f \in {free_slices(S2, resv.slice_head)}})
                        : S2 \in {marked_committed(arg_taxed(x.slab))}})
                : x \in {execute_slices(S, resv.slice_head, resv.account_idx,
                                        resv.side, 0, 0, 0)}})

\* cancel
cancel(S, hold_id) ==
    LET resv_idx == find_reservation(S, hold_id)
        resv == S.reservations[resv_idx]
    IN  IF resv_idx = NIL
        THEN [err |-> "ReservationNotFound", slab |-> S]
        ELSE IF already_committed(resv)
        THEN [err |-> "InvalidReservation", slab |-> S]
        ELSE Only({
                IF f.err # "Ok"
                THEN f
                ELSE [err |-> "Ok",
                      slab |-> [f.slab EXCEPT !.reservations =
                                    pool_free(@, resv_idx, FreeReservation)]]
                : f \in {free_slices(S, resv.slice_head)}})

\* A maker's order enters the book (matching/book.rs).
insert_order(S, account_idx, side, price, qty, created_ms) ==
    LET o == pool_alloc(S.orders)
    IN  IF o = NIL
        THEN [err |-> "PoolFull", slab |-> S]
        ELSE [err |-> "Ok",
              slab |-> [S EXCEPT !.orders[o] =
                            [used |-> TRUE, order_id |-> S.next_order_id,
                             account_idx |-> account_idx, side |-> side,
                             price |-> price, qty |-> qty, reserved_qty |-> 0,
                             created_ms |-> created_ms],
                        !.next_order_id = @ + 1]]

\* reserve walks the contra orders, holding on each what is still available,
\* one slice per order, until qty is covered.
RECURSIVE reserve_walk(_, _, _, _, _)
reserve_walk(S, o, side, remaining, chain) ==
    IF o > MaxOrders \/ remaining = 0
    THEN [slab |-> S, chain |-> chain]
    ELSE LET order == S.orders[o]
             available == IF order.used /\ order.side # side
                          THEN order.qty - order.reserved_qty ELSE 0
             s == pool_alloc(S.slices)
             take == IF remaining < available THEN remaining ELSE available
         IN  IF available <= 0 \/ s = NIL
             THEN reserve_walk(S, o + 1, side, remaining, chain)
             ELSE Only({
                     reserve_walk(S1, o + 1, side, remaining - take, chain1)
                     : S1 \in {[S EXCEPT !.orders[o].reserved_qty = @ + take,
                                         !.slices[s] = [used |-> TRUE, order_idx |-> o,
                                                        qty |-> take, next |-> NIL]]},
                       chain1 \in {Append(chain, s)}})

\* reserve (matching/reserve.rs): a reservation with a fresh hold_id, the
\* caller's deadline and the index price of the moment.
reserve(S, account_idx, side, qty, expiry_ms) ==
    LET resv_idx == pool_alloc(S.reservations)
        linked(w) ==
            [s \in SliceIdxs |->
                IF \E k \in 1 .. Len(w.chain) - 1 : w.chain[k] = s
                THEN [w.slab.slices[s] EXCEPT !.next =
                         w.chain[(CHOOSE k \in 1 .. Len(w.chain) - 1 :
                                      w.chain[k] = s) + 1]]
                ELSE w.slab.slices[s]]
    IN  IF resv_idx = NIL
        THEN [err |-> "PoolFull", slab |-> S, hold_id |-> 0]
        ELSE Only({
                IF w.chain = <<>>
                THEN [err |-> "InsufficientLiquidity", slab |-> S, hold_id |-> 0]
                ELSE [err |-> "Ok", hold_id |-> S.next_hold_id,
                      slab |-> [w.slab EXCEPT
                          !.slices = linked(w),
                          !.reservations[resv_idx] =
                              [used |-> TRUE, hold_id |-> S.next_hold_id,
                               account_idx |-> account_idx, side |-> side,
                               expiry_ms |-> expiry_ms, committed |-> FALSE,
                               slice_head |-> w.chain[1],
                               reserve_oracle_px |-> S.index_price],
                          !.next_hold_id = @ + 1]]
                : w \in {reserve_walk(S, 1, side, qty, <<>>)}})

\* The last call on the SlabState: its arguments, its outcome and, for a
\* cancel, the number of slices the reservation held when it was called.
NoResvLast ==
    [op |-> "init", err |-> "Ok", hold_id |-> 0, current_ts |-> 0, slices |-> 0]

\* The slices of a reservation, from its slice_head along the next links.
RECURSIVE SliceChain(_, _)
SliceChain(S, idx) ==
    IF idx = NIL \/ ~pool_get(S.slices, idx)
    THEN <<>>
    ELSE <<idx>> \o SliceChain(S, S.slices[idx].next)

HeldSlices(S, hold_id) ==
    LET i == find_reservation(S, hold_id)
    IN  IF i = NIL THEN <<>> ELSE SliceChain(S, S.reservations[i].slice_head)

InitSlab ==
    /\ slab = InitSlabState
    /\ resv_last = NoResvLast
    /\ consumed = [committed |-> {}, cancelled |-> {}]

InsertOrder ==
    \E account_idx \in Makers, side \in RestingSides, price \in RestingPrices, qty \in RestingQtys :
        \E r \in {insert_order(slab, account_idx, side, price, qty, 0)} :
            /\ r.slab.next_order_id <= MaxRestingId + 1
            /\ slab' = r.slab
            /\ resv_last' = [NoResvLast EXCEPT !.op = "insert_order", !.err = r.err]
            /\ UNCHANGED <<consumed, notSlab>>

Reserve ==
    \E account_idx \in Takers, side \in ReserveSides, qty \in ReserveQtys, expiry_ms \in Expiries :
        \E r \in {reserve(slab, account_idx, side, qty, expiry_ms)} :
            /\ r.slab.next_hold_id <= MaxHoldId + 1
            /\ slab' = r.slab
            /\ resv_last' = [NoResvLast EXCEPT !.op = "reserve", !.err = r.err,
                                               !.hold_id = r.hold_id]
            /\ UNCHANGED <<consumed, notSlab>>

Commit ==
    \E hold_id \in 1 .. MaxHoldId, current_ts \in CommitTimes :
        \E r \in {commit(slab, hold_id, current_ts)} :
            /\ slab' = r.slab
            /\ resv_last' = [NoResvLast EXCEPT !.op = "commit", !.err = r.err,
                                               !.hold_id = hold_id,
                                               !.current_ts = current_ts]
            /\ consumed' = IF r.err = "Ok"
                           THEN [consumed EXCEPT !.committed = @ \cup {hold_id}]
                           ELSE consumed
            /\ UNCHANGED notSlab

Cancel ==
    \E hold_id \in 1 .. MaxHoldId :
        \E r \in {cancel(slab, hold_id)} :
            /\ slab' = r.slab
            /\ resv_last' = [NoResvLast EXCEPT !.op = "cancel", !.err = r.err,
                                               !.hold_id = hold_id,
                                               !.slices = Len(HeldSlices(slab, hold_id))]
            /\ consumed' = IF r.err = "Ok"
                           THEN [consumed EXCEPT !.cancelled = @ \cup {hold_id}]
                           ELSE consumed
            /\ UNCHANGED notSlab

\* The oracle moves the index price of the instrument.
SetIndexPrice ==
    \E px \in IndexPrices \ {slab.index_price} :
        /\ slab' = [slab EXCEPT !.index_price = px]
        /\ resv_last' = [NoResvLast EXCEPT !.op = "set_index_price"]
        /\ UNCHANGED <<consumed, notSlab>>

(***************************************************************************)
(* The router's capability lifecycle: programs/router/src/instructions/    *)
(* cap_ops.rs and multi_commit.rs.  A Vault pledges funds into per-venue   *)
(* Escrows, a Cap authorizes one venue to debit its escrow, and the        *)
(* multi-venue commit validates and burns the caps of a route.  The        *)
(* methods of Cap, Escrow and Vault live in router/src/state/, which holds *)
(* only registry.rs and venue_pnl.rs here: they are modelled after the     *)
(* specification and after what the tests of cap_ops.rs assert of them.    *)
(***************************************************************************)
MaxCaps == 2

MAX_TTL_MS == 120000

Venues == {"slabA", "slabB"}
Charges == {2, 5}
DebitAmounts == {1, 2}
MintTimes == {1000}
Ttls == {60000}
DebitTimes == {50000, 200000}

\* The debits a venue attempts, <<escrow, amount, user, slab, mint,
\* current_ts>>: the minting user's on either venue, in time and late; a
\* foreign user's and a foreign mint's; and the minting user's against the
\* other venue's escrow.
DebitCalls ==
    { <<v, a, "user", v, "usdc", 50000>> : v \in Venues, a \in DebitAmounts }
    \cup { <<v, 1, "user", v, "usdc", 200000>> : v \in Venues }
    \cup { <<"slabA", 1, "other", "slabA", "usdc", 50000>>,
           <<"slabA", 1, "user", "slabA", "other", 50000>>,
           <<"slabB", 1, "user", "slabA", "usdc", 50000>>,
           <<"slabA", 1, "user", "slabB", "usdc", 50000>> }

CapIds == 1 .. MaxCaps

\* A Cap account that no route has minted yet.
NoCap ==
    [minted |-> FALSE, scope_user |-> "user", scope_slab |-> "slabA",
     scope_mint |-> "usdc", amount_max |-> 0, remaining |-> 0,
     expiry_ts |-> 0, burned |-> FALSE]

\* The vault of create_test_vault, its balance scaled down, with empty escrows.
InitRouter ==
    [vault |-> [balance |-> 4, total_pledged |-> 0],
     escrows |-> [v \in Venues |-> 0],
     caps |-> [c \in CapIds |-> NoCap],
     num_caps |-> 0]

\* Vault::available: what is not pledged yet.
Vault_available(vault) == saturating_sub(vault.balance, vault.total_pledged)

\* Vault::pledge: moves `amount` into the pledged total, or fails.
Vault_pledge(vault, amount) ==
    IF amount > Vault_available(vault)
    THEN [ok |-> FALSE, vault |-> vault]
    ELSE [ok |-> TRUE,
          vault |-> [vault EXCEPT !.total_pledged = vault.total_pledged + amount]]

\* Vault::unpledge: releases `amount` of the pledged total.
Vault_unpledge(vault, amount) ==
    [vault EXCEPT !.total_pledged = saturating_sub(vault.total_pledged, amount)]

\* Escrow::credit.
Escrow_credit(balance, amount) == balance + amount

\* Escrow::debit: fails when the balance does not cover `amount`.
Escrow_debit(balance, amount) ==
    IF amount > balance
    THEN [ok |-> FALSE, balance |-> balance]
    ELSE [ok |-> TRUE, balance |-> balance - amount]

\* Cap::new: a full, unburned cap whose time to live is capped at two minutes.
Cap_new(user, slab_id, mint, amount_max, current_ts, ttl_ms) ==
    [minted |-> TRUE, scope_user |-> user, scope_slab |-> slab_id,
     scope_mint |-> mint, amount_max |-> amount_max, remaining |-> amount_max,
     expiry_ts |-> current_ts + Min(ttl_ms, MAX_TTL_MS), burned |-> FALSE]

\* Cap::debit: a burned or expired cap authorizes nothing; otherwise the
\* scope and the remaining amount are checked and the amount is taken.
Cap_debit(cap, amount, user, slab_id, mint, current_ts) ==
    IF cap.burned \/ current_ts > cap.expiry_ts
    THEN [err |-> "Expired", cap |-> cap]
    ELSE IF user # cap.scope_user \/ slab_id # cap.scope_slab \/ mint # cap.scope_mint
    THEN [err |-> "InvalidScope", cap |-> cap]
    ELSE IF amount > cap.remaining
    THEN [err |-> "InsufficientRemaining", cap |-> cap]
    ELSE [err |-> "Ok", cap |-> [cap EXCEPT !.remaining = cap.remaining - amount]]

\* Cap::burn: the one-way burned flag.
Cap_burn(cap) == [cap EXCEPT !.burned = TRUE]

\* mint_cap_for_reserve: pledge from the vault, credit the escrow, create the cap.
mint_cap_for_reserve(R, c, user, slab_id, mint, max_charge, current_ts, ttl_ms) ==
    LET p == Vault_pledge(R.vault, max_charge)
    IN IF ~p.ok
       THEN [err |-> "InsufficientFunds", router |-> R]
       ELSE [err |-> "Ok",
             router |-> [R EXCEPT !.vault = p.vault,
                                  !.escrows[slab_id] = Escrow_credit(R.escrows[slab_id], max_charge),
                                  !.caps[c] = Cap_new(user, slab_id, mint, max_charge, current_ts, ttl_ms),
                                  !.num_caps = c]]

\* The error cap_debit maps a CapError to.
cap_error(e) ==
    CASE e = "Expired" -> "CapabilityExpired"
      [] e = "InvalidScope" -> "InvalidScope"
      [] e = "InsufficientRemaining" -> "InsufficientFunds"

\* cap_debit: the cap is debited first and the escrow `e` after it; when the
\* escrow cannot cover the amount the function returns with the cap debited.
cap_debit(R, c, e, amount, user, slab_id, mint, current_ts) ==
    LET d == Cap_debit(R.caps[c], amount, user, slab_id, mint, current_ts)
        x == Escrow_debit(R.escrows[e], amount)
    IN IF d.err # "Ok"
       THEN [err |-> cap_error(d.err), router |-> R]
       ELSE IF ~x.ok
       THEN [err |-> "InsufficientFunds", router |-> [R EXCEPT !.caps[c] = d.cap]]
       ELSE [err |-> "Ok",
             router |-> [R EXCEPT !.caps[c] = d.cap, !.escrows[e] = x.balance]]

\* burn_cap_and_refund of cap_ops.rs: burn, then return the unused amount
\* from the escrow `e` to the vault when the escrow holds that much.
burn_cap_and_refund(R, c, e) ==
    LET unused == R.caps[c].remaining
        B == [R EXCEPT !.caps[c] = Cap_burn(R.caps[c])]
    IN IF unused > 0 /\ R.escrows[e] >= unused
       THEN [err |-> "Ok",
             router |-> [B EXCEPT !.escrows[e] = Escrow_debit(R.escrows[e], unused).balance,
                                  !.vault = Vault_unpledge(R.vault, unused)]]
       ELSE [err |-> "Ok", router |-> B]

\* validate_cap of multi_commit.rs.
validate_cap_unchecked(cap, current_ts) ==
    IF cap.remaining = 0 THEN "InsufficientFunds" ELSE "Ok"

validate_cap(cap, current_ts) ==
    IF cap.burned THEN "CapabilityExpired"
    ELSE IF current_ts > cap.expiry_ts THEN "CapabilityExpired"
    ELSE IF cap.remaining = 0 THEN "InsufficientFunds"
    ELSE "Ok"

\* Step 1 of process_multi_commit: the first cap of the route that fails
\* validation decides the error.
RECURSIVE validate_caps(_, _, _, _)
validate_caps(caps, count, i, current_ts) ==
    IF i > count THEN "Ok"
    ELSE IF validate_cap(caps[i], current_ts) # "Ok" THEN validate_cap(caps[i], current_ts)
    ELSE validate_caps(caps, count, i + 1, current_ts)

\* Step 2 of process_multi_commit: results[i].success is what the commit on
\* venue i returned.  The loop stops at the first failing venue, `fail_at`
\* (0 when every commit succeeds), and the results from it on keep their
\* default, success = false.
commit_results(fail_at, count) ==
    [i \in 1 .. count |-> fail_at = 0 \/ i < fail_at]

\* rollback_commits: the refund and the cancel of the failed venues are left
\* undone; every cap of the route is marked burned.
rollback_commits(R, count, results) ==
    [R EXCEPT !.caps = [c \in CapIds |->
        IF c <= count THEN [R.caps[c] EXCEPT !.burned = TRUE] ELSE R.caps[c]]]

\* process_multi_commit over the caps 1 .. count of a route.  The exposure
\* update of the success path touches the portfolio only.
process_multi_commit(R, count, fail_at, current_ts) ==
    IF count = 0 THEN [err |-> "InvalidInstruction", router |-> R]
    ELSE IF validate_caps(R.caps, count, 1, current_ts) # "Ok"
    THEN [err |-> validate_caps(R.caps, count, 1, current_ts), router |-> R]
    ELSE IF \A i \in 1 .. count : commit_results(fail_at, count)[i]
    THEN [err |-> "Ok",
          router |-> [R EXCEPT !.caps = [c \in CapIds |->
              IF c <= count THEN [R.caps[c] EXCEPT !.burned = TRUE] ELSE R.caps[c]]]]
    ELSE [err |-> "CommitFailed",
          router |-> rollback_commits(R, count, commit_results(fail_at, count))]

NoCapLast ==
    [op |-> "none", err |-> "Ok", cap |-> 0, current_ts |-> 0, fail_at |-> 0]

InitCap ==
    /\ router = InitRouter
    /\ cap_last = NoCapLast

\* The router mints the next cap of the route for a reserve on venue `slab_id`.
MintCapForReserve ==
    /\ router.num_caps < MaxCaps
    /\ \E slab_id \in Venues, max_charge \in Charges, current_ts \in MintTimes, ttl_ms \in Ttls :
        \E r \in {mint_cap_for_reserve(router, router.num_caps + 1, "user", slab_id, "usdc", max_charge, current_ts, ttl_ms)} :
            /\ router' = r.router
            /\ cap_last' = [NoCapLast EXCEPT !.op = "mint_cap_for_reserve", !.err = r.err,
                               !.cap = router.num_caps + 1, !.current_ts = current_ts]
    /\ UNCHANGED notCap

\* A venue debits through a cap; the caller chooses the escrow and the scope.
CapDebit ==
    /\ \E c \in 1 .. router.num_caps, call \in DebitCalls :
        \E r \in {cap_debit(router, c, call[1], call[2], call[3], call[4], call[5], call[6])} :
            /\ router' = r.router
            /\ cap_last' = [NoCapLast EXCEPT !.op = "cap_debit", !.err = r.err, !.cap = c,
                               !.current_ts = call[6]]
    /\ UNCHANGED notCap

\* The router burns a cap and refunds from the escrow of the cap's venue.
BurnCapAndRefund ==
    /\ \E c \in 1 .. router.num_caps :
        \E r \in {burn_cap_and_refund(router, c, router.caps[c].scope_slab)} :
            /\ router' = r.router
            /\ cap_last' = [NoCapLast EXCEPT !.op = "burn_cap_and_refund", !.err = r.err,
                               !.cap = c]
    /\ UNCHANGED notCap

\* The router commits the route: all the caps minted so far, one per request.
MultiCommit ==
    /\ \E current_ts \in DebitTimes, fail_at \in 0 .. router.num_caps :
        \E r \in {process_multi_commit(router, router.num_caps, fail_at, current_ts)} :
            /\ router' = r.router
            /\ cap_last' = [NoCapLast EXCEPT !.op = "process_multi_commit", !.err = r.err,
                               !.cap = router.num_caps, !.current_ts = current_ts,
                               !.fail_at = fail_at]
    /\ UNCHANGED notCap

(***************************************************************************)
(* Margin on net exposure: crates/model_safety/src/cross_slab.rs, the      *)
(* functions the router calls at the end of execute_cross_slab.            *)
(* Prices are carried in whole quote units, px / PX_SCALE, so that the     *)
(* divisor of margin_on_net_verified, 10_000_000_000 = BPS_DENOM *         *)
(* PX_SCALE, becomes BPS_DENOM; the quotient is the same.  The checked     *)
(* additions and multiplications cannot overflow on the values used here.  *)
(***************************************************************************)
MaxExposure == 2

MAX_EXPOSURES == 8

SlabIdxs == {0, 1}
InstrumentIdxs == {0, 1}
SplitQtys == {1, 2}
SplitSides == {0, 1}
AvgPrices == {50}
ImrBps == {1000}

\* The splits of one execution and the slabs they go to: a single split, or
\* a split on each of the two slabs.
SplitRoutes ==
    { <<s>> : s \in (SplitQtys \X SplitSides \X SlabIdxs) }
    \cup { <<<<q, sd, 0>>, <<q, 1 - sd, 1>>>> : q \in SplitQtys, sd \in SplitSides }

\* Split::signed_qty.
signed_qty(qty, side) == IF side = 0 THEN qty ELSE -qty

\* Portfolio::get_exposure.
get_exposure(P, slab_idx, instrument_idx) ==
    IF \E i \in 1 .. Len(P) : P[i].slab_idx = slab_idx /\ P[i].instrument_idx = instrument_idx
    THEN P[CHOOSE i \in 1 .. Len(P) : P[i].slab_idx = slab_idx /\ P[i].instrument_idx = instrument_idx].exposure
    ELSE 0

\* Portfolio::update_exposure: overwrite the pair's entry or append one.
update_exposure(P, slab_idx, instrument_idx, new_exposure) ==
    IF \E i \in 1 .. Len(P) : P[i].slab_idx = slab_idx /\ P[i].instrument_idx = instrument_idx
    THEN [ok |-> TRUE,
          portfolio |-> [i \in 1 .. Len(P) |->
              IF P[i].slab_idx = slab_idx /\ P[i].instrument_idx = instrument_idx
              THEN [P[i] EXCEPT !.exposure = new_exposure] ELSE P[i]]]
    ELSE IF Len(P) >= MAX_EXPOSURES
    THEN [ok |-> FALSE, portfolio |-> P]
    ELSE [ok |-> TRUE,
          portfolio |-> Append(P, [slab_idx |-> slab_idx, instrument_idx |-> instrument_idx,
                                   exposure |-> new_exposure])]

\* The commit phase of update_exposures_verified: the new exposures, all
\* computed from the portfolio as it was, are written one after the other.
RECURSIVE commit_exposures(_, _, _, _)
commit_exposures(P, new_exposures, i, instrument_idx) ==
    IF i > Len(new_exposures) THEN [ok |-> TRUE, portfolio |-> P]
    ELSE \* Only({...}): the update is evaluated once
         Only({ IF ~u.ok THEN u
                ELSE commit_exposures(u.portfolio, new_exposures, i + 1, instrument_idx)
              : u \in {update_exposure(P, new_exposures[i][1], instrument_idx, new_exposures[i][2])} })

\* update_exposures_verified; a split is <<qty, side, slab index>>.
update_exposures_verified(P, route, instrument_idx) ==
    commit_exposures(P,
        [i \in 1 .. Len(route) |->
            <<route[i][3],
              get_exposure(P, route[i][3], instrument_idx) + signed_qty(route[i][1], route[i][2])>>],
        1, instrument_idx)

\* net_exposure_verified: the sum of every exposure of the portfolio.
RECURSIVE net_exposure_from(_, _)
net_exposure_from(P, i) ==
    IF i > Len(P) THEN 0 ELSE P[i].exposure + net_exposure_from(P, i + 1)

gross_exposure(P) == net_exposure_from([i \in 1 .. Len(P) |-> [P[i] EXCEPT !.exposure = Abs(P[i].exposure)]], 1)

net_exposure_verified(P) == net_exposure_from(P, 1)

\* margin_on_net_verified.
margin_on_net_verified(net_exposure, avg_price, imr_bps) ==
    IF net_exposure = 0 THEN 0
    ELSE (Abs(net_exposure) * avg_price * imr_bps) \div BPS_DENOM

NoMarginLast == [op |-> "none", im |-> 0, avg_price |-> 0, imr_bps |-> 0]

InitMargin ==
    /\ portfolio = <<>>
    /\ margin_last = NoMarginLast

\* One execution updates the exposures of an instrument on the slabs of its
\* splits.
UpdateExposures ==
    /\ \E route \in SplitRoutes, instrument_idx \in InstrumentIdxs :
        \E r \in {update_exposures_verified(portfolio, route, instrument_idx)} :
            /\ r.ok
            /\ \A i \in 1 .. Len(r.portfolio) : Abs(r.portfolio[i].exposure) <= MaxExposure
            /\ portfolio' = r.portfolio
            /\ margin_last' = [NoMarginLast EXCEPT !.op = "update_exposures"]
    /\ UNCHANGED notMargin

\* Phase 4 of execute_cross_slab: the initial margin on the net exposure.
ComputeMargin ==
    /\ \E avg_price \in AvgPrices, imr_bps \in ImrBps :
        margin_last' = [op |-> "margin",
                        im |-> margin_on_net_verified(net_exposure_verified(portfolio), avg_price, imr_bps),
                        avg_price |-> avg_price, imr_bps |-> imr_bps]
    /\ UNCHANGED <<portfolio, notMargin>>

(***************************************************************************)
(* Funding: crates/model_safety/src/funding.rs (lazy application to a      *)
(* position, update of the market's cumulative index) and                  *)
(* programs/slab/src/matching/funding.rs (the slab's periodic update).     *)
(* crate::math is not part of the sources: add_i128, sub_i128 and mul_i128 *)
(* are the plain sum, difference and product of the specification's        *)
(* formulas, on values far inside the range of an i128.                    *)
(***************************************************************************)
MaxUpdates == 2

DEVIATION_SCALE == 1000000
SECONDS_PER_HOUR == 3600
FUNDING_INTERVAL_MS == 3600000
MAX_FUNDING_RATE_BPS == 500

BaseSizes == {-2, -1, 1, 2}
MarkPrices == {990, 1000, 1100}
OraclePrices == {0, 1000}
Sensitivities == {1}
DtSeconds == {1800, 3600, 7200}
FundingTimes == {1800000, 3600000, 7200000}

add_i128(a, b) == a + b
sub_i128(a, b) == a - b
mul_i128(a, b) == a * b

\* The `/` of Rust on signed integers, for a positive divisor: toward zero.
div_trunc(a, b) == IF a >= 0 THEN a \div b ELSE -((-a) \div b)

\* The `clamp` of Rust.
clamp(x, lo, hi) == IF x < lo THEN lo ELSE IF x > hi THEN hi ELSE x

Position(base_size) ==
    [base_size |-> base_size, realized_pnl |-> 0, funding_index_offset |-> 0]

\* apply_funding.
apply_funding_abs(position, market) ==
    [position EXCEPT
        !.realized_pnl = position.realized_pnl
            + Abs(position.base_size) * (market.cumulative_funding_index - position.funding_index_offset),
        !.funding_index_offset = market.cumulative_funding_index]

apply_funding_keep_offset(position, market) ==
    [position EXCEPT
        !.realized_pnl = position.realized_pnl
            + position.base_size * (market.cumulative_funding_index - position.funding_index_offset)]

apply_funding(position, market) ==
    LET delta == sub_i128(market.cumulative_funding_index, position.funding_index_offset)
        funding_payment == mul_i128(position.base_size, delta)
    IN IF delta = 0 THEN position
       ELSE [position EXCEPT
                !.realized_pnl = add_i128(position.realized_pnl, funding_payment),
                !.funding_index_offset = market.cumulative_funding_index]

\* update_funding_index.
update_funding_index(market, mark_price, oracle_price, sensitivity, dt_seconds) ==
    IF oracle_price <= 0 THEN [ok |-> FALSE, market |-> market]
    ELSE LET diff == mark_price - oracle_price
             deviation == div_trunc(diff * DEVIATION_SCALE, oracle_price)
             rate == div_trunc(deviation * sensitivity * dt_seconds, SECONDS_PER_HOUR)
         IN [ok |-> TRUE,
             market |-> [market EXCEPT !.cumulative_funding_index =
                            add_i128(market.cumulative_funding_index, rate)]]

\* update_funding of the slab: the mark price is the index price, the rate
\* is clamped, and the payment per unit grows with the time elapsed, which
\* the code takes in hours times 10_000 (here: milliseconds / 360).
update_funding(instrument, current_ts) ==
    IF current_ts < instrument.last_funding_ts + FUNDING_INTERVAL_MS THEN instrument
    ELSE LET time_elapsed_ms == saturating_sub(current_ts, instrument.last_funding_ts)
             mark_price == instrument.index_price
             index_price == instrument.index_price
             price_diff == mark_price - index_price
             spread_bps == IF index_price > 0
                           THEN div_trunc(price_diff * BPS_DENOM, index_price) ELSE 0
             new_rate == clamp(spread_bps * 1, -MAX_FUNDING_RATE_BPS, MAX_FUNDING_RATE_BPS)
             funding_payment_per_unit ==
                 div_trunc(new_rate * ((time_elapsed_ms * 10) \div SECONDS_PER_HOUR) * index_price,
                           BPS_DENOM * BPS_DENOM)
         IN [instrument EXCEPT !.cum_funding = instrument.cum_funding + funding_payment_per_unit,
                               !.funding_rate = new_rate,
                               !.last_funding_ts = current_ts]

NoFundLast ==
    [op |-> "none", ok |-> TRUE, pos |-> 0, payment |-> 0, second |-> FALSE,
     first_payment |-> 0]

\* A market with nothing accrued and no position yet, and an instrument of
\* the slab.
InitFunding ==
    /\ funding = [market |-> [cumulative_funding_index |-> 0],
                  positions |-> <<>>,
                  updates |-> 0,
                  instrument |-> [index_price |-> 100, cum_funding |-> 0,
                                  funding_rate |-> 0, last_funding_ts |-> 0]]
    /\ fund_last = NoFundLast

\* Two positions of any sizes are opened on the market, as the tests build
\* them: no pnl, offset 0, before the index has moved.
OpenPositions ==
    /\ funding.positions = <<>>
    /\ funding.updates = 0
    /\ \E a \in BaseSizes, b \in BaseSizes :
        funding' = [funding EXCEPT !.positions = <<Position(a), Position(b)>>]
    /\ fund_last' = [NoFundLast EXCEPT !.op = "open"]
    /\ UNCHANGED notFunding

\* A position is touched: funding is applied to it.
ApplyFunding ==
    /\ \E i \in 1 .. Len(funding.positions) :
        \E p \in {apply_funding(funding.positions[i], funding.market)} :
            /\ funding' = [funding EXCEPT !.positions[i] = p]
            /\ fund_last' =
                 [op |-> "apply_funding", ok |-> TRUE, pos |-> i,
                  payment |-> p.realized_pnl - funding.positions[i].realized_pnl,
                  second |-> (fund_last.op = "apply_funding" /\ fund_last.pos = i),
                  first_payment |->
                      IF fund_last.op = "apply_funding" /\ fund_last.pos = i
                      THEN fund_last.first_payment
                      ELSE p.realized_pnl - funding.positions[i].realized_pnl]
    /\ UNCHANGED notFunding

\* The market's cumulative index is updated from mark and oracle.
UpdateFundingIndex ==
    /\ funding.positions # <<>>
    /\ funding.updates < MaxUpdates
    /\ \E mark_price \in MarkPrices, oracle_price \in OraclePrices, sensitivity \in Sensitivities, dt_seconds \in DtSeconds :
        \E r \in {update_funding_index(funding.market, mark_price, oracle_price, sensitivity, dt_seconds)} :
            /\ funding' = [funding EXCEPT !.market = r.market, !.updates = @ + 1]
            /\ fund_last' = [NoFundLast EXCEPT !.op = "update_funding_index", !.ok = r.ok]
    /\ UNCHANGED notFunding

\* The slab's periodic funding update of its instrument.
UpdateFunding ==
    /\ \E current_ts \in FundingTimes :
        /\ funding' = [funding EXCEPT !.instrument = update_funding(funding.instrument, current_ts)]
        /\ fund_last' = [NoFundLast EXCEPT !.op = "update_funding"]
    /\ UNCHANGED notFunding

(***************************************************************************)
(* Fee distribution: crates/model_safety/src/fee_distribution.rs.  Fees    *)
(* cover the socialized loss first; the rest raises a global index of fees *)
(* per unit of vested positive profit, which accounts collect on touch.    *)
(* crate::math and crate::warmup are not part of the sources: the u128     *)
(* helpers are the saturating operations of the specification, and the     *)
(* vested positive profit of an account without reserved or warming-up     *)
(* profit is the positive part of its ledger, as the tests assert.         *)
(***************************************************************************)
MaxFeeCalls == 2
MaxLoss == 2

FEE_SCALE == 1000000

FeeAmounts == {0, 1, 2}
\* The ledgers of the accounts: two winners, one at zero and a loser.
PnlLedgers == <<1, 2, 0, -1>>
FeeAccounts == 1 .. Len(PnlLedgers)

add_u128(a, b) == a + b
sub_u128(a, b) == saturating_sub(a, b)
mul_u128(a, b) == a * b
div_u128(a, b) == IF b = 0 THEN 0 ELSE a \div b

\* Account::default with a ledger.
FeeAccount(pnl_ledger) ==
    [pnl_ledger |-> pnl_ledger, fee_index_user |-> 0, fee_accrued |-> 0,
     vested_pos_snapshot |-> 0]

\* warmup::effective_positive_pnl.
effective_positive_pnl(acc) == IF acc.pnl_ledger > 0 THEN acc.pnl_ledger ELSE 0

\* vested_positive_pnl.
vested_abs_pnl(acc) == Abs(acc.pnl_ledger)

vested_positive_pnl(acc) == effective_positive_pnl(acc)

\* The distribution step of on_fees, once the loss is covered.
distribute_no_carry(s, distributable) ==
    IF s.sum_vested_pos_pnl > 0
    THEN [s EXCEPT !.fee_carry = 0,
                   !.fee_index = add_u128(s.fee_index,
                        div_u128(mul_u128(distributable, FEE_SCALE), s.sum_vested_pos_pnl))]
    ELSE [s EXCEPT !.fee_carry = distributable]

distribute_set_index(s, distributable) ==
    IF s.sum_vested_pos_pnl > 0
    THEN [s EXCEPT !.fee_carry = 0,
                   !.fee_index = div_u128(mul_u128(add_u128(distributable, s.fee_carry), FEE_SCALE),
                                          s.sum_vested_pos_pnl)]
    ELSE [s EXCEPT !.fee_carry = add_u128(distributable, s.fee_carry)]

distribute(s, distributable) ==
    LET total_distributable == add_u128(distributable, s.fee_carry)
    IN IF s.sum_vested_pos_pnl > 0
       THEN [s EXCEPT !.fee_carry = 0,
                      !.fee_index = add_u128(s.fee_index,
                           div_u128(mul_u128(total_distributable, FEE_SCALE), s.sum_vested_pos_pnl))]
       ELSE [s EXCEPT !.fee_carry = total_distributable]

\* The loss cover of on_fees.
cover_of_none(fees, loss_accum) == 0

cover_of(fees, loss_accum) == IF fees > loss_accum THEN loss_accum ELSE fees

\* on_fees: <<state, cover, distributable>>.
on_fees(s, fees) ==
    IF fees = 0 THEN [state |-> s, cover |-> 0, distributable |-> 0]
    ELSE LET cover == cover_of(fees, s.loss_accum)
             distributable == sub_u128(fees, cover)
             covered == [s EXCEPT !.loss_accum = sub_u128(s.loss_accum, cover)]
         IN [state |-> IF distributable > 0 THEN distribute(covered, distributable) ELSE covered,
             cover |-> cover, distributable |-> distributable]

\* on_touch that adds the account's vested profit to the sum at every touch.
on_touch_recount(s, i) ==
    LET acc == s.accounts[i]
        vested_now == vested_positive_pnl(acc)
    IN [state |-> [s EXCEPT !.sum_vested_pos_pnl = add_u128(s.sum_vested_pos_pnl, vested_now),
                            !.accounts[i] = [acc EXCEPT !.fee_index_user = s.fee_index,
                                                        !.vested_pos_snapshot = vested_now]],
        credited |-> 0]

\* on_touch of account i: accrue from the index, then reconcile the sum.
on_touch(s, i) ==
    LET acc == s.accounts[i]
        vested_now == vested_positive_pnl(acc)
        index_delta == sub_u128(s.fee_index, acc.fee_index_user)
        credit == div_u128(mul_u128(index_delta, vested_now), FEE_SCALE)
        credited == IF vested_now > 0 /\ index_delta > 0 /\ credit > 0 THEN credit ELSE 0
        prev_snapshot == acc.vested_pos_snapshot
        sum == IF vested_now > prev_snapshot
               THEN add_u128(s.sum_vested_pos_pnl, sub_u128(vested_now, prev_snapshot))
               ELSE IF vested_now < prev_snapshot
               THEN sub_u128(s.sum_vested_pos_pnl, sub_u128(prev_snapshot, vested_now))
               ELSE s.sum_vested_pos_pnl
    IN [state |-> [s EXCEPT !.sum_vested_pos_pnl = sum,
                            !.accounts[i] = [acc EXCEPT
                                !.fee_accrued = add_u128(acc.fee_accrued, credited),
                                !.fee_index_user = s.fee_index,
                                !.vested_pos_snapshot = vested_now]],
        credited |-> credited]

NoFeeLast ==
    [op |-> "none", acc |-> 0, fees |-> 0, cover |-> 0, distributable |-> 0,
     credited |-> 0, index_before |-> 0, carry_before |-> 0, user_index_before |-> 0]

\* State::default with its accounts, and what has gone in and out so far.
InitFee ==
    /\ fstate = [loss_accum |-> 0, fee_index |-> 0, sum_vested_pos_pnl |-> 0, fee_carry |-> 0,
              accounts |-> [i \in FeeAccounts |-> FeeAccount(PnlLedgers[i])],
              calls |-> 0, total_distributable |-> 0, total_credited |-> 0]
    /\ fee_last = NoFeeLast

\* A socialized loss is booked.
LossAccrued ==
    /\ fstate.loss_accum < MaxLoss
    /\ fstate' = [fstate EXCEPT !.loss_accum = @ + 1]
    /\ fee_last' = [NoFeeLast EXCEPT !.op = "loss"]
    /\ UNCHANGED notFee

\* Fees come in.
OnFees ==
    /\ fstate.calls < MaxFeeCalls
    /\ \E fees \in FeeAmounts :
        \E r \in {on_fees(fstate, fees)} :
            /\ fstate' = [r.state EXCEPT !.calls = @ + 1,
                                      !.total_distributable = @ + r.distributable]
            /\ fee_last' = [NoFeeLast EXCEPT !.op = "on_fees", !.fees = fees,
                               !.cover = r.cover, !.distributable = r.distributable,
                               !.index_before = fstate.fee_index,
                               !.carry_before = fstate.fee_carry]
    /\ UNCHANGED notFee

\* An account is touched.
OnTouch ==
    /\ \E i \in FeeAccounts :
        \E r \in {on_touch(fstate, i)} :
            /\ fstate' = [r.state EXCEPT !.total_credited = @ + r.credited]
            /\ fee_last' = [NoFeeLast EXCEPT !.op = "on_touch", !.acc = i,
                               !.credited = r.credited,
                               !.index_before = fstate.fee_index,
                               !.carry_before = fstate.fee_carry,
                               !.user_index_before = fstate.accounts[i].fee_index_user]
    /\ UNCHANGED notFee

(***************************************************************************)
(* Liquidation: the router's coordinator (router instructions/liquidate.rs)*)
(* and the slab's engine (slab matching/liquidate.rs).  The slab's risk    *)
(* module and its book are not part of the sources: an account is          *)
(* liquidatable when its equity is below its maintenance margin, and the   *)
(* book of a side is the list of its resting orders, best price first.     *)
(***************************************************************************)
MaxLiquidations == 2
MaxLiqOrders == 2

\* The maintenance margin ratio of the instrument, in basis points.
MMR_BPS == 250

LiqOrderIdxs == 1 .. MaxLiqOrders
Liquidatee == 1
LiqMaker == 2
LiqAccounts == {Liquidatee, LiqMaker}

\* Bids and asks around a mark of 100, inside and outside a band of 3%.
LiqBidPrices == {96, 98}
LiqAskPrices == {102, 104}
LiqRestingQtys == {1}
LiqPositionQtys == {2, -2}
LiqMarks == {100, 104}
PriceBands == {300}
DeficitTargets == {0, 5}
MaxDebts == {0, 5}
LiquidationFeeBps == {500}
\* Equity of the router's liquidatee around its maintenance margin of 10.
PortfolioEquities == {8, 9, 10, 12}
PortfolioMms == {10, 11}

Portfolio(equity, im, mm, free_collateral) ==
    [equity |-> equity, im |-> im, mm |-> mm, free_collateral |-> free_collateral]

\* Router: is_liquidatable.
portfolio_is_liquidatable(p) == p.equity < p.mm

\* Router: calculate_deficit.
calculate_deficit(p) == IF p.equity >= p.mm THEN 0 ELSE p.mm - p.equity

\* Router: execute_forced_liquidation over slab_count slabs; no slab closes
\* anything, so nothing is covered.
execute_forced_liquidation(slab_count, target_deficit) == 0

\* Router: calculate_liquidation_reward.
calculate_liquidation_reward(total_closed_notional, liquidation_fee_bps) ==
    (total_closed_notional * liquidation_fee_bps) \div BPS_DENOM

\* Router: recalculate_margin.
recalculate_margin(p) == [p EXCEPT !.free_collateral = p.equity - p.im]

\* process_liquidate without its checks.
process_liquidate_unchecked(liquidatee, liquidator, max_debt, liquidation_fee_bps) ==
    LET total_closed == execute_forced_liquidation(0, Min(calculate_deficit(liquidatee), max_debt))
        reward == calculate_liquidation_reward(total_closed, liquidation_fee_bps)
    IN  [err |-> "Ok", total_closed |-> total_closed,
         liquidatee |-> recalculate_margin([liquidatee EXCEPT !.equity = @ - reward]),
         liquidator |-> [liquidator EXCEPT !.equity = @ + reward]]

\* Router: process_liquidate.
process_liquidate(liquidatee, liquidator, max_debt, liquidation_fee_bps) ==
    IF ~portfolio_is_liquidatable(liquidatee)
    THEN [err |-> "NotLiquidatable", total_closed |-> 0,
          liquidatee |-> liquidatee, liquidator |-> liquidator]
    ELSE IF calculate_deficit(liquidatee) = 0
    THEN [err |-> "NotLiquidatable", total_closed |-> 0,
          liquidatee |-> liquidatee, liquidator |-> liquidator]
    ELSE LET target_deficit == Min(calculate_deficit(liquidatee), max_debt)
             total_closed == execute_forced_liquidation(0, target_deficit)
             reward == calculate_liquidation_reward(total_closed, liquidation_fee_bps)
         IN  [err |-> "Ok", total_closed |-> total_closed,
              liquidatee |-> recalculate_margin([liquidatee EXCEPT !.equity = @ - reward]),
              liquidator |-> [liquidator EXCEPT !.equity = @ + reward]]

FreeLiqOrder == [used |-> FALSE, account_idx |-> 0, side |-> "none", price |-> 0, qty |-> 0]
NoPosition == [used |-> FALSE, qty |-> 0, entry_px |-> 0]

\* The slab as the liquidation engine sees it: one instrument with its index
\* price and its two books, the orders, and each account's cash and position.
InitVenue ==
    [index_price |-> 100,
     orders |-> [i \in LiqOrderIdxs |-> FreeLiqOrder],
     bids |-> <<>>, asks |-> <<>>,
     cash |-> [a \in LiqAccounts |-> 0],
     positions |-> [a \in LiqAccounts |-> NoPosition],
     calls |-> 0]

\* Slab risk::calculate_equity.
calculate_equity(V, account_idx) ==
    LET pos == V.positions[account_idx]
        unrealized == IF pos.used THEN calculate_pnl(pos.qty, pos.entry_px, V.index_price) ELSE 0
        equity == V.cash[account_idx] + unrealized
    IN  IF equity > 0 THEN equity ELSE 0

\* Slab risk::calculate_margin_requirements (the maintenance margin).
calculate_mm(V, account_idx) ==
    LET pos == V.positions[account_idx]
    IN  IF pos.used THEN (Abs(pos.qty) * V.index_price * MMR_BPS) \div BPS_DENOM ELSE 0

\* Slab risk::is_liquidatable.
is_liquidatable(V, account_idx) == calculate_equity(V, account_idx) < calculate_mm(V, account_idx)

\* The place of a new order in a book: behind every order at least as good.
RECURSIVE book_insert(_, _, _, _)
book_insert(V, book, o, side) ==
    IF book = <<>> THEN <<o>>
    ELSE LET head == V.orders[Head(book)]
             better == IF side = "Buy" THEN V.orders[o].price > head.price
                                       ELSE V.orders[o].price < head.price
         IN  IF better THEN <<o>> \o book
             ELSE <<Head(book)>> \o book_insert(V, Tail(book), o, side)

\* update_position of the liquidation engine: it changes an existing
\* position and creates none.
liq_update_position(V, account_idx, qty_delta, price) ==
    LET pos == V.positions[account_idx]
        old_qty == pos.qty
        new_qty == old_qty + qty_delta
    IN  IF ~pos.used THEN V
        ELSE IF (old_qty > 0 /\ new_qty > 0) \/ (old_qty < 0 /\ new_qty < 0)
        THEN [V EXCEPT !.positions[account_idx] =
                 [pos EXCEPT !.qty = new_qty,
                             !.entry_px = (mul_u64(Abs(old_qty), pos.entry_px)
                                              + mul_u64(Abs(qty_delta), price)) \div Abs(new_qty)]]
        ELSE IF new_qty = 0
        THEN [V EXCEPT !.positions[account_idx].qty = new_qty]
        ELSE [V EXCEPT !.positions[account_idx] = [pos EXCEPT !.qty = new_qty, !.entry_px = price]]

\* execute_liquidation_trade: both positions, then the fees; a maker's rebate is not paid.
execute_liquidation_trade(V, taker_account_idx, maker_account_idx, side, qty, price) ==
    LET taker_delta == IF side = "Buy" THEN qty ELSE -qty
        notional == mul_u64(qty, price)
        taker_fee == calculate_fee(notional, header.taker_fee)
        maker_fee == calculate_fee(notional, IF header.maker_fee > 0 THEN header.maker_fee ELSE 0)
    IN  Only({[V2 EXCEPT !.cash = [a \in LiqAccounts |->
                    V2.cash[a] - (IF a = taker_account_idx THEN taker_fee ELSE 0)
                               - (IF a = maker_account_idx THEN maker_fee ELSE 0)]]
              : V2 \in {liq_update_position(
                            liq_update_position(V, taker_account_idx, taker_delta, price),
                            maker_account_idx, -taker_delta, price)}})

within_band_any(maker_price, min_price, max_price) == TRUE

\* execute_liquidation_sweep: "within_band".
within_band(maker_price, min_price, max_price) ==
    maker_price >= min_price /\ maker_price <= max_price

\* execute_liquidation_sweep: the walk along the contra book.  A filled
\* order's slot is freed; remove_order_from_book leaves the book as it is.
RECURSIVE execute_liquidation_sweep(_, _, _, _, _, _, _, _)
execute_liquidation_sweep(V, account_idx, side, book, qty_remaining, min_price, max_price, fills) ==
    IF book = <<>> \/ qty_remaining = 0
    THEN [err |-> "Ok", venue |-> V, fills |-> fills]
    ELSE IF ~pool_get(V.orders, Head(book))
    THEN [err |-> "OrderNotFound", venue |-> V, fills |-> fills]
    ELSE LET order == V.orders[Head(book)]
             fill == Min(qty_remaining, order.qty)
         IN  IF ~within_band(order.price, min_price, max_price)
             THEN [err |-> "Ok", venue |-> V, fills |-> fills]
             ELSE Only({
                     execute_liquidation_sweep(
                         [V1 EXCEPT !.orders[Head(book)] =
                             IF order.qty - fill = 0 THEN FreeLiqOrder
                             ELSE [order EXCEPT !.qty = @ - fill]],
                         account_idx, side, Tail(book), qty_remaining - fill,
                         min_price, max_price,
                         Append(fills, [price |-> order.price, qty |-> fill]))
                     : V1 \in {execute_liquidation_trade(V, account_idx, order.account_idx,
                                                         side, fill, order.price)}})

\* The quantity and the notional of a list of fills.
RECURSIVE fills_qty(_)
fills_qty(fills) == IF fills = <<>> THEN 0 ELSE Head(fills).qty + fills_qty(Tail(fills))

RECURSIVE fills_notional(_)
fills_notional(fills) ==
    IF fills = <<>> THEN 0
    ELSE mul_u64(Head(fills).qty, Head(fills).price) + fills_notional(Tail(fills))

\* update_position_after_close
update_position_after_close(V, account_idx, qty_delta) ==
    LET pos == V.positions[account_idx]
    IN  IF ~pos.used THEN V
        ELSE IF pos.qty + qty_delta = 0
        THEN [V EXCEPT !.positions[account_idx] = NoPosition]
        ELSE [V EXCEPT !.positions[account_idx].qty = pos.qty + qty_delta]

\* close_position: the band around the mark, the sweep, the realized pnl.
close_position(V, account_idx, position_qty, price_band_bps) ==
    LET close_side == IF position_qty > 0 THEN "Sell" ELSE "Buy"
        mark_price == V.index_price
        band_delta == (mark_price * price_band_bps) \div BPS_DENOM
        min_price == IF close_side = "Buy" THEN 0 ELSE saturating_sub(mark_price, band_delta)
        max_price == IF close_side = "Buy" THEN mark_price + band_delta ELSE 2147483647
        book == IF close_side = "Buy" THEN V.asks ELSE V.bids
    IN  IF position_qty = 0
        THEN [err |-> "Ok", venue |-> V, fills |-> <<>>, side |-> "none", notional |-> 0, pnl |-> 0]
        ELSE Only({
                IF w.err # "Ok"
                THEN [err |-> w.err, venue |-> w.venue, fills |-> w.fills, side |-> close_side,
                      notional |-> 0, pnl |-> 0]
                ELSE LET filled_qty == fills_qty(w.fills)
                         total_notional == fills_notional(w.fills)
                         position_entry_px == IF w.venue.positions[account_idx].used
                                              THEN w.venue.positions[account_idx].entry_px ELSE 0
                         avg_close_px == IF filled_qty > 0 THEN total_notional \div filled_qty
                                         ELSE position_entry_px
                         pnl == calculate_pnl(position_qty, position_entry_px, avg_close_px)
                     IN  [err |-> "Ok", fills |-> w.fills, side |-> close_side,
                          notional |-> total_notional, pnl |-> pnl,
                          venue |-> update_position_after_close(
                                        [w.venue EXCEPT !.cash[account_idx] = @ + pnl],
                                        account_idx, -filled_qty)]
                : w \in {execute_liquidation_sweep(V, account_idx, close_side, book,
                             Abs(position_qty), min_price, max_price, <<>>)}})

\* execute_liquidation: the account's one position is closed when there is
\* a deficit to recover; then the liquidation fee.
execute_liquidation(V, account_idx, deficit_target, liquidation_fee_bps, price_band_bps) ==
    IF ~is_liquidatable(V, account_idx)
    THEN [err |-> "BelowMaintenanceMargin", venue |-> V, fills |-> <<>>, side |-> "none",
          realized_pnl |-> 0]
    ELSE LET actual_deficit == calculate_mm(V, account_idx) - calculate_equity(V, account_idx)
             target == Min(deficit_target, actual_deficit)
             pos == V.positions[account_idx]
         IN  IF ~(pos.used /\ 0 < target)
             THEN [err |-> "Ok", venue |-> V, fills |-> <<>>, side |-> "none",
                   realized_pnl |-> 0]
             ELSE Only({
                     IF c.err # "Ok"
                     THEN [err |-> c.err, venue |-> c.venue, fills |-> c.fills, side |-> c.side,
                           realized_pnl |-> 0]
                     ELSE [err |-> "Ok", fills |-> c.fills, side |-> c.side,
                           realized_pnl |-> c.pnl,
                           venue |-> [c.venue EXCEPT !.cash[account_idx] =
                                         @ - (c.notional * liquidation_fee_bps) \div BPS_DENOM]]
                     : c \in {close_position(V, account_idx, pos.qty, price_band_bps)}})

NoLiquidateLast == [op |-> "none", err |-> "Ok", max_debt |-> 0]

\* The portfolios of test_process_liquidate_not_liquidatable, in thousands.
InitRouterLiq ==
    /\ portfolios = [liquidatee |-> Portfolio(12, 15, 10, 2),
                     liquidator |-> Portfolio(50, 0, 0, 50), calls |-> 0]
    /\ liquidate_last = NoLiquidateLast

\* The liquidatee's portfolio is marked: its equity and its maintenance margin.
MarkPortfolio ==
    /\ \E equity \in PortfolioEquities, mm \in PortfolioMms :
        /\ <<equity, mm>> # <<portfolios.liquidatee.equity, portfolios.liquidatee.mm>>
        /\ portfolios' = [portfolios EXCEPT !.liquidatee.equity = equity,
                                            !.liquidatee.mm = mm]
    /\ liquidate_last' = [NoLiquidateLast EXCEPT !.op = "mark_portfolio"]
    /\ UNCHANGED notRouterLiq

\* The router's liquidate instruction.
ProcessLiquidate ==
    /\ portfolios.calls < MaxLiquidations
    /\ \E max_debt \in MaxDebts, liquidation_fee_bps \in LiquidationFeeBps :
        \E r \in {process_liquidate(portfolios.liquidatee, portfolios.liquidator,
                                    max_debt, liquidation_fee_bps)} :
            /\ portfolios' = [portfolios EXCEPT !.liquidatee = r.liquidatee,
                                                !.liquidator = r.liquidator,
                                                !.calls = @ + 1]
            /\ liquidate_last' = [NoLiquidateLast EXCEPT !.op = "process_liquidate",
                                     !.err = r.err, !.max_debt = max_debt]
    /\ UNCHANGED notRouterLiq

NoLiqLast ==
    [op |-> "none", err |-> "Ok", side |-> "none", fills |-> <<>>, mark_price |-> 0,
     price_band_bps |-> 0, realized_pnl |-> 0]

InitLiq ==
    /\ venue = InitVenue
    /\ liq_last = NoLiqLast

\* A maker rests an order in the instrument's book.
LiqRestOrder ==
    /\ \E side \in {"Buy", "Sell"}, qty \in LiqRestingQtys :
        \E price \in (IF side = "Buy" THEN LiqBidPrices ELSE LiqAskPrices) :
            \E o \in {pool_alloc(venue.orders)} :
                /\ o # NIL
                /\ \E V \in {[venue EXCEPT !.orders[o] =
                                 [used |-> TRUE, account_idx |-> LiqMaker, side |-> side,
                                  price |-> price, qty |-> qty]]} :
                      venue' = IF side = "Buy"
                               THEN [V EXCEPT !.bids = book_insert(V, V.bids, o, side)]
                               ELSE [V EXCEPT !.asks = book_insert(V, V.asks, o, side)]
    /\ liq_last' = [NoLiqLast EXCEPT !.op = "rest_order"]
    /\ UNCHANGED notLiq

\* The account to be liquidated holds a position, entered at 100 with 4 of cash.
LiqOpenPosition ==
    /\ ~venue.positions[Liquidatee].used
    /\ venue.cash[Liquidatee] = 0
    /\ \E qty \in LiqPositionQtys :
        venue' = [venue EXCEPT !.positions[Liquidatee] =
                                  [used |-> TRUE, qty |-> qty, entry_px |-> 100],
                              !.cash[Liquidatee] = 4]
    /\ liq_last' = [NoLiqLast EXCEPT !.op = "open_position"]
    /\ UNCHANGED notLiq

\* The instrument's index price moves.
LiqSetMark ==
    /\ \E px \in LiqMarks :
        /\ px # venue.index_price
        /\ venue' = [venue EXCEPT !.index_price = px]
    /\ liq_last' = [NoLiqLast EXCEPT !.op = "set_mark"]
    /\ UNCHANGED notLiq

\* The slab's liquidation call.
ExecuteLiquidation ==
    /\ venue.calls < MaxLiquidations
    /\ \E deficit_target \in DeficitTargets, liquidation_fee_bps \in LiquidationFeeBps,
          price_band_bps \in PriceBands :
        \E r \in {execute_liquidation(venue, Liquidatee, deficit_target,
                                      liquidation_fee_bps, price_band_bps)} :
            /\ venue' = [r.venue EXCEPT !.calls = @ + 1]
            /\ liq_last' = [NoLiqLast EXCEPT !.op = "execute_liquidation", !.err = r.err,
                               !.side = r.side, !.fills = r.fills,
                               !.mark_price = venue.index_price,
                               !.price_band_bps = price_band_bps,
                               !.realized_pnl = r.realized_pnl]
    /\ UNCHANGED notLiq

(***************************************************************************)
(* Anti-toxicity accounting of commit (slab matching/commit.rs) over a     *)
(* batch: makers rest orders on both sides before and after the batch      *)
(* opens (instructions/batch_open.rs), and one taker buys and sells.  The  *)
(* batch opens once.                                                       *)
(* Every order rests at the same price, so no position realizes a profit   *)
(* and an account's cash moves by fees and tax only.                       *)
(***************************************************************************)
MaxToxHolds == 3

ToxSides == {"Buy", "Sell"}
ToxReserveQtys == {1}
\* The header's maker fee and JIT switch: the rebate of the test slab with the
\* penalty off and on, and a maker fee that is a charge.
ToxHeaders == {<<-5, FALSE>>, <<-5, TRUE>>, <<5, TRUE>>}
\* The batch opens at 1; an order rested before that is created at 0, an
\* order rested after it at 2.
tox_now(opened) == IF opened THEN 2 ELSE 0
ToxExpiries == {3}
ToxCommitTimes == {3}
Taker == 1
Maker == 2

NoToxLast ==
    [op |-> "none", err |-> "Ok", hold_id |-> 0, created_ms |-> 0, notional |-> 0,
     maker_delta |-> 0]

\* The slice a commit of hold_id starts with, and the resting order it fills.
first_slice(S, hold_id) ==
    IF find_reservation(S, hold_id) = NIL
          \/ ~pool_get(S.slices, S.reservations[find_reservation(S, hold_id)].slice_head)
    THEN FreeSlice
    ELSE S.slices[S.reservations[find_reservation(S, hold_id)].slice_head]

first_order(S, hold_id) ==
    IF first_slice(S, hold_id).used /\ pool_get(S.orders, first_slice(S, hold_id).order_idx)
    THEN S.orders[first_slice(S, hold_id).order_idx]
    ELSE FreeOrder

\* A slab with room for every reservation of the batch: a committed
\* reservation keeps its slot.
InitTox ==
    /\ tox = [slab |-> [InitSlabState EXCEPT
                            !.reservations = [i \in 1 .. MaxToxHolds |-> FreeReservation]],
              opened |-> FALSE, rested |-> {}, total_tax |-> 0]
    /\ tox_last = NoToxLast

\* The header's maker fee and JIT switch, set before the slab takes orders.
ToxConfigure ==
    /\ tox.rested = {}
    /\ \E h \in ToxHeaders :
        /\ h # <<tox.slab.header.maker_fee, tox.slab.header.jit_penalty_on>>
        /\ tox' = [tox EXCEPT !.slab.header.maker_fee = h[1],
                              !.slab.header.jit_penalty_on = h[2]]
    /\ tox_last' = [NoToxLast EXCEPT !.op = "configure"]
    /\ UNCHANGED notTox

\* process_batch_open: the next epoch, its opening time, and the aggressor
\* entries of earlier epochs freed.
process_batch_open(S, current_ts) ==
    [S EXCEPT !.batch_open_ms = current_ts,
              !.aggressor_ledger = [a \in AccountIdxs |-> FreeAggressorEntry]]

BatchOpen ==
    /\ ~tox.opened
    /\ tox' = [tox EXCEPT !.slab = process_batch_open(tox.slab, tox_now(tox.opened) + 1),
                          !.opened = TRUE, !.total_tax = 0]
    /\ tox_last' = [NoToxLast EXCEPT !.op = "batch_open"]
    /\ UNCHANGED notTox

\* The maker rests its order of a side: one order a side.
ToxInsertOrder ==
    /\ \E side \in ToxSides, price \in RestingPrices, qty \in RestingQtys :
        \E r \in {insert_order(tox.slab, Maker, side, price, qty, tox_now(tox.opened))} :
            /\ side \notin tox.rested
            /\ r.err = "Ok"
            /\ tox' = [tox EXCEPT !.slab = r.slab, !.rested = @ \cup {side}]
    /\ tox_last' = [NoToxLast EXCEPT !.op = "insert_order"]
    /\ UNCHANGED notTox

\* The taker reserves against the contra side.
ToxReserve ==
    /\ tox.slab.next_hold_id <= MaxToxHolds
    /\ \E side \in ToxSides, qty \in ToxReserveQtys, expiry_ms \in ToxExpiries :
        \E r \in {reserve(tox.slab, Taker, side, qty, expiry_ms)} :
            /\ tox' = [tox EXCEPT !.slab = r.slab]
            /\ tox_last' = [NoToxLast EXCEPT !.op = "reserve", !.err = r.err,
                                             !.hold_id = r.hold_id]
    /\ UNCHANGED notTox

\* The taker commits a reservation of one slice; what its cash loses is the
\* round-trip tax, and what the maker's cash gains is the maker's rebate.
ToxCommit ==
    /\ \E hold_id \in 1 .. MaxToxHolds, current_ts \in ToxCommitTimes :
        \E r \in {commit(tox.slab, hold_id, current_ts)} :
            /\ tox' = [tox EXCEPT !.slab = r.slab,
                                  !.total_tax = @ + (tox.slab.cash[Taker] - r.slab.cash[Taker])]
            /\ tox_last' = [NoToxLast EXCEPT !.op = "commit", !.err = r.err,
                                             !.hold_id = hold_id,
                                             !.created_ms = first_order(tox.slab, hold_id).created_ms,
                                             !.notional = mul_u64(first_slice(tox.slab, hold_id).qty,
                                                                  first_order(tox.slab, hold_id).price),
                                             !.maker_delta = r.slab.cash[Maker] - tox.slab.cash[Maker]]
    /\ UNCHANGED notTox

(***************************************************************************)
(* VenuePnl (router state/venue_pnl.rs): the accumulated maker fee         *)
(* credits, venue fees and realized pnl of a venue.  The i128 of the       *)
(* fields is narrowed to a signed word of I128_BITS bits, so that          *)
(* checked_add overflows on values TLC can count to.                       *)
(***************************************************************************)
I128_BITS == 4

I128_MAX == 2 ^ (I128_BITS - 1) - 1
I128_MIN == -(2 ^ (I128_BITS - 1))

PnlDeltas == {-5, 0, 1, 5}

\* i128::checked_add: the sum, or none when it leaves the word.
checked_add(a, b) ==
    IF a + b > I128_MAX \/ a + b < I128_MIN
    THEN [some |-> FALSE, value |-> 0]
    ELSE [some |-> TRUE, value |-> a + b]

\* VenuePnl::initialize_in_place.
initialize_in_place ==
    [maker_fee_credits |-> 0, venue_fees |-> 0, realized_pnl |-> 0]

\* VenuePnl::apply_deltas: each field is assigned as soon as its sum is
\* known, and `?` returns at the first sum that overflows.
apply_deltas(self, maker_fee_credits_delta, venue_fees_delta, realized_pnl_delta) ==
    LET a == checked_add(self.maker_fee_credits, maker_fee_credits_delta)
        s1 == [self EXCEPT !.maker_fee_credits = a.value]
        b == checked_add(s1.venue_fees, venue_fees_delta)
        s2 == [s1 EXCEPT !.venue_fees = b.value]
        c == checked_add(s2.realized_pnl, realized_pnl_delta)
        s3 == [s2 EXCEPT !.realized_pnl = c.value]
    IN  IF ~a.some THEN [ok |-> FALSE, self |-> self]
        ELSE IF ~b.some THEN [ok |-> FALSE, self |-> s1]
        ELSE IF ~c.some THEN [ok |-> FALSE, self |-> s2]
        ELSE [ok |-> TRUE, self |-> s3]

NoPnlLast == [op |-> "none", ok |-> TRUE]

InitPnl ==
    /\ venue_pnl = initialize_in_place
    /\ pnl_last = NoPnlLast

\* A liquidity result is applied to the venue.
ApplyDeltas ==
    /\ \E d1 \in PnlDeltas, d2 \in PnlDeltas, d3 \in PnlDeltas :
        \E r \in {apply_deltas(venue_pnl, d1, d2, d3)} :
            /\ venue_pnl' = r.self
            /\ pnl_last' = [op |-> "apply_deltas", ok |-> r.ok]
    /\ UNCHANGED notPnl

(***************************************************************************)
(* RiskEngine::withdraw and RiskEngine::settle_warmup_to_capital.  The     *)
(* engine is not part of the sources; its tests are                        *)
(* (tests/negative_pnl_realization_and_equity_margin.rs).  The two methods *)
(* are modelled after the specification and after what those tests set up  *)
(* and assert, on one user account whose pnl is a loss or zero.            *)
(***************************************************************************)
MaxWithdraws == 3

INITIAL_MARGIN_BPS == 1000
ENTRY_PRICE_SCALE == 1000000

\* The accounts the tests set up: <<capital, pnl, position_size>>.
EngineSetups ==
    {<<10000, -9000, 0>>, <<10000, -3000, 0>>, <<5000, -8000, 0>>,
     <<150, -100, 1000>>, <<10000, 0, 0>>}
WarmupSlopes == {0, 10}
WithdrawAmounts == {10000, 1000, 60, 40}

\* RiskEngine::new and add_user, then the fields a test writes.
EngineOf(setup, slope) ==
    [capital |-> setup[1], pnl |-> setup[2], position_size |-> setup[3],
     entry_price |-> ENTRY_PRICE_SCALE, warmup_slope_per_step |-> slope,
     warmup_started_at_slot |-> 0, current_slot |-> 100,
     vault |-> setup[1], warmed_neg_total |-> 0]

\* Mutant: a loss is realized no faster than the warmup slope lets it.
settle_warmup_gated(E) ==
    LET cap == E.warmup_slope_per_step * (E.current_slot - E.warmup_started_at_slot)
        pay == IF E.pnl < 0 THEN Min(Min(E.capital, -E.pnl), cap) ELSE 0
    IN  [E EXCEPT !.capital = @ - pay, !.pnl = @ + pay, !.warmed_neg_total = @ + pay]

\* settle_warmup_to_capital: a negative pnl is paid out of capital at once,
\* as far as the capital goes.
settle_warmup_to_capital(E) ==
    LET pay == IF E.pnl < 0 THEN Min(E.capital, -E.pnl) ELSE 0
    IN  [E EXCEPT !.capital = @ - pay, !.pnl = @ + pay, !.warmed_neg_total = @ + pay]

\* account_equity: max(0, capital + pnl).
account_equity(capital, pnl) == IF capital + pnl > 0 THEN capital + pnl ELSE 0

\* The initial margin of the account's position at its entry price.
initial_margin(E) ==
    (((Abs(E.position_size) * E.entry_price) \div ENTRY_PRICE_SCALE) * INITIAL_MARGIN_BPS)
        \div BPS_DENOM

\* withdraw: settles, then checks the balance, then the margin of what is left.
withdraw(E, amount) ==
    LET S == settle_warmup_to_capital(E)
    IN  IF amount > S.capital
        THEN [err |-> "InsufficientBalance", engine |-> S]
        ELSE IF S.position_size # 0
                /\ account_equity(S.capital - amount, S.pnl) < initial_margin(S)
        THEN [err |-> "Undercollateralized", engine |-> S]
        ELSE [err |-> "Ok",
              engine |-> [S EXCEPT !.capital = @ - amount, !.vault = @ - amount]]

NoEngineLast == [op |-> "none", err |-> "Ok", amount |-> 0, calls |-> 0]

InitEngine ==
    /\ engine = EngineOf(<<0, 0, 0>>, 0)
    /\ engine_last = NoEngineLast

\* A test writes the account's fields.
EngineSetup ==
    /\ engine_last.op = "none"
    /\ \E setup \in EngineSetups, slope \in WarmupSlopes :
        engine' = EngineOf(setup, slope)
    /\ engine_last' = [NoEngineLast EXCEPT !.op = "setup"]
    /\ UNCHANGED notEngine

SettleWarmupToCapital ==
    /\ engine_last.op # "none"
    /\ engine_last.calls < MaxWithdraws
    /\ engine' = settle_warmup_to_capital(engine)
    /\ engine_last' = [NoEngineLast EXCEPT !.op = "settle_warmup_to_capital",
                                           !.calls = engine_last.calls + 1]
    /\ UNCHANGED notEngine

Withdraw ==
    /\ engine_last.op # "none"
    /\ engine_last.calls < MaxWithdraws
    /\ \E amount \in WithdrawAmounts :
        \E r \in {withdraw(engine, amount)} :
            /\ engine' = r.engine
            /\ engine_last' = [op |-> "withdraw", err |-> r.err, amount |-> amount,
                               calls |-> engine_last.calls + 1]
    /\ UNCHANGED notEngine

(***************************************************************************)
(* The warmup throttle of the safety model (crates/model_safety/src/      *)
(* transitions.rs): trade_settle, withdraw_pnl and tick_warmup on a State  *)
(* of two users.  crate::warmup is not part of the sources:                *)
(* withdrawable_pnl is modelled after the specification, as the positive   *)
(* pnl capped by slope * steps_elapsed.  Amounts are far inside a u128.    *)
(***************************************************************************)
MaxWarmCalls == 4

WarmUsers == {1, 2}
Realized == {3, -1}
WarmAmounts == {1, 2, 5}
CurrentSteps == {2, 4}
TickSteps == {1, 2}
\* The slope of Warmup::default, scaled down with the amounts.
SLOPE_PER_STEP == 1

\* Account::default.
WarmAccount ==
    [pnl_ledger |-> 0, reserved_pnl |-> 0,
     warmup_state |-> [started_at_slot |-> 0, slope_per_step |-> SLOPE_PER_STEP]]

\* warmup::withdrawable_pnl: min(positive pnl not reserved, slope * steps).
withdrawable_pnl(user, steps_elapsed, slope_per_step) ==
    Min(sub_u128(effective_positive_pnl(user), user.reserved_pnl),
        mul_u128(slope_per_step, steps_elapsed))

trade_settle(s, uid, realized) ==
    IF ~s.authorized_router \/ uid > Len(s.users) THEN s
    ELSE [s EXCEPT !.users[uid].pnl_ledger = add_i128(@, realized),
                   !.vault = IF realized > 0 THEN add_u128(@, realized)
                             ELSE sub_u128(@, sub_i128(0, realized))]

withdraw_pnl(s, uid, amount, current_step) ==
    IF ~s.authorized_router \/ uid > Len(s.users) THEN s
    ELSE LET user == s.users[uid]
             steps_elapsed == saturating_sub(current_step, user.warmup_state.started_at_slot)
             max_withdrawable ==
                 withdrawable_pnl(user, steps_elapsed, user.warmup_state.slope_per_step)
             actual_withdraw == Min(amount, max_withdrawable)
         IN  IF actual_withdraw = 0 THEN s
             ELSE [s EXCEPT !.users[uid].pnl_ledger = sub_i128(@, actual_withdraw),
                            !.vault = sub_u128(@, actual_withdraw)]

\* tick_warmup: started_at_slot of every user moves forward by `steps`.
tick_warmup(s, steps) ==
    IF ~s.authorized_router THEN s
    ELSE [s EXCEPT !.users = [u \in DOMAIN s.users |->
            [s.users[u] EXCEPT !.warmup_state.started_at_slot = @ + steps]]]

NoWarmLast == [op |-> "none", calls |-> 0]

\* State::default with two default users.
InitWarm ==
    /\ warm = [vault |-> 0, users |-> [u \in WarmUsers |-> WarmAccount],
               authorized_router |-> TRUE]
    /\ warm_last = NoWarmLast

TradeSettle ==
    /\ warm_last.calls < MaxWarmCalls
    /\ \E uid \in WarmUsers, realized \in Realized :
        warm' = trade_settle(warm, uid, realized)
    /\ warm_last' = [op |-> "trade_settle", calls |-> warm_last.calls + 1]
    /\ UNCHANGED notWarm

WithdrawPnl ==
    /\ warm_last.calls < MaxWarmCalls
    /\ \E uid \in WarmUsers, amount \in WarmAmounts, current_step \in CurrentSteps :
        warm' = withdraw_pnl(warm, uid, amount, current_step)
    /\ warm_last' = [op |-> "withdraw_pnl", calls |-> warm_last.calls + 1]
    /\ UNCHANGED notWarm

TickWarmup ==
    /\ warm_last.calls < MaxWarmCalls
    /\ \E steps \in TickSteps :
        warm' = tick_warmup(warm, steps)
    /\ warm_last' = [op |-> "tick_warmup", calls |-> warm_last.calls + 1]
    /\ UNCHANGED notWarm

(***************************************************************************)
(* Venue selection of the router (instructions/multi_reserve.rs):          *)
(* process_multi_reserve turns the requests into reserve results, sorts    *)
(* them by VWAP and selects from the best price on.  The function is pure  *)
(* but for the flags it sets on its results; a request is drawn, the       *)
(* function is applied to it once, and its results are kept to look at.    *)
(***************************************************************************)
MaxSlabs == 3

SlabVwaps == {1, 2, 3}
SlabQtys == {1, 2}
TargetQtys == {0, 2, 3}
RouteLimits == {2}

\* The requests of a route: up to MaxSlabs of them, <<qty, expected_vwap>> each.
SlabRequests ==
    UNION {[1 .. n -> SlabQtys \X SlabVwaps] : n \in 0 .. MaxSlabs}

\* The SlabReserveResult process_multi_reserve builds from request i.
SlabReserveResult(i, request) ==
    [slab_index |-> i, vwap_px |-> request[2], filled_qty |-> request[1],
     selected |-> FALSE]

should_swap(a, b, side) ==
    IF side = "Buy" THEN a.vwap_px > b.vwap_px ELSE a.vwap_px < b.vwap_px

\* One pass of the bubble sort: j runs over the pairs up to `stop`.
RECURSIVE sort_pass(_, _, _, _)
sort_pass(results, j, stop, side) ==
    IF j > stop THEN results
    ELSE sort_pass(IF should_swap(results[j], results[j + 1], side)
                   THEN [results EXCEPT ![j] = results[j + 1], ![j + 1] = results[j]]
                   ELSE results,
                   j + 1, stop, side)

RECURSIVE sort_passes(_, _, _)
sort_passes(results, i, side) ==
    IF i >= Len(results) THEN results
    ELSE sort_passes(sort_pass(results, 1, Len(results) - i - 1, side), i + 1, side)

\* Mutant: the results are left in the order of the requests.
sort_by_vwap_unsorted(results, side) == results

\* sort_by_vwap: best price first.
sort_by_vwap(results, side) == sort_passes(results, 0, side)

within_limit(result, limit_px, side) ==
    IF side = "Buy" THEN result.vwap_px <= limit_px ELSE result.vwap_px >= limit_px

\* The loop of select_best_slabs from result k on.
RECURSIVE select_from(_, _, _, _, _, _, _)
select_from(results, k, target_qty, limit_px, side, selected_count, total_filled) ==
    IF k > Len(results)
    THEN [results |-> results, selected_count |-> selected_count,
          total_filled |-> total_filled]
    ELSE IF ~within_limit(results[k], limit_px, side)
    THEN select_from(results, k + 1, target_qty, limit_px, side, selected_count, total_filled)
    ELSE IF total_filled >= target_qty
    THEN [results |-> results, selected_count |-> selected_count,
          total_filled |-> total_filled]
    ELSE select_from([results EXCEPT ![k].selected = TRUE], k + 1, target_qty, limit_px, side,
                     selected_count + 1,
                     total_filled + Min(results[k].filled_qty,
                                        saturating_sub(target_qty, total_filled)))

select_best_slabs(results, target_qty, limit_px, side) ==
    select_from(results, 1, target_qty, limit_px, side, 0, 0)

NoRoute == [op |-> "none", err |-> "Ok", results |-> <<>>, selected_count |-> 0,
            total_filled |-> 0]

process_multi_reserve(slab_requests, side, target_qty, limit_px) ==
    IF Len(slab_requests) = 0 THEN [NoRoute EXCEPT !.err = "InvalidInstruction"]
    ELSE IF target_qty = 0 THEN [NoRoute EXCEPT !.err = "InvalidQuantity"]
    ELSE LET results == [i \in 1 .. Len(slab_requests) |->
                            SlabReserveResult(i, slab_requests[i])]
             sel == select_best_slabs(sort_by_vwap(results, side), target_qty, limit_px, side)
         IN  [op |-> "none",
              err |-> IF sel.total_filled = 0 THEN "InsufficientLiquidity" ELSE "Ok",
              results |-> sel.results, selected_count |-> sel.selected_count,
              total_filled |-> sel.total_filled]

\* A route a user asks for, not yet processed.
InitRoute ==
    /\ route_in \in [slab_requests : SlabRequests, side : {"Buy", "Sell"},
                     target_qty : TargetQtys, limit_px : RouteLimits]
    /\ route_out = NoRoute

ProcessMultiReserve ==
    /\ route_out.op = "none"
    /\ route_out' = [process_multi_reserve(route_in.slab_requests, route_in.side,
                                           route_in.target_qty, route_in.limit_px)
                        EXCEPT !.op = "process_multi_reserve"]
    /\ UNCHANGED route_in
    /\ UNCHANGED notRoute

(***************************************************************************)
(* update_position, of commit (matching/commit.rs) and of liquidation      *)
(* (matching/liquidate.rs), on one position and one fill: a position and   *)
(* a fill are drawn, and each function is applied to them once.            *)
(***************************************************************************)
OldQtys == {3, 2, -2}
EntryPrices == {1000, 900}
QtyDeltas == {1, -1, -2, 2, -3, 4}
FillPrices == {1000, 1100}

NoPositionOut == [op |-> "none", used |-> FALSE, qty |-> 0, entry_px |-> 0, realized |-> 0]

InitPosition ==
    /\ pos_in \in [old_qty : OldQtys, entry_px : EntryPrices, qty_delta : QtyDeltas,
                   price : FillPrices]
    /\ pos_out = NoPositionOut

\* commit's update_position on the taker's position.
UpdatePosition ==
    /\ pos_out.op = "none"
    /\ \E S \in {[InitSlabState EXCEPT !.positions[1] =
                     [used |-> TRUE, account_idx |-> Taker, qty |-> pos_in.old_qty,
                      entry_px |-> pos_in.entry_px]]} :
        \E r \in {update_position(S, Taker, pos_in.qty_delta, pos_in.price)} :
            \E p \in {find_position(r.slab, Taker)} :
                pos_out' = [op |-> "commit", used |-> p # NIL,
                            qty |-> IF p = NIL THEN 0 ELSE r.slab.positions[p].qty,
                            entry_px |-> IF p = NIL THEN 0 ELSE r.slab.positions[p].entry_px,
                            realized |-> r.slab.cash[Taker] - S.cash[Taker]]
    /\ UNCHANGED pos_in
    /\ UNCHANGED notPosition

\* liquidation's update_position on the liquidated account's position.
LiqUpdatePosition ==
    /\ pos_out.op = "none"
    /\ \E V \in {[InitVenue EXCEPT !.positions[Liquidatee] =
                     [used |-> TRUE, qty |-> pos_in.old_qty, entry_px |-> pos_in.entry_px]]} :
        \E V2 \in {liq_update_position(V, Liquidatee, pos_in.qty_delta, pos_in.price)} :
            pos_out' = [op |-> "liquidate", used |-> V2.positions[Liquidatee].used,
                        qty |-> V2.positions[Liquidatee].qty,
                        entry_px |-> V2.positions[Liquidatee].entry_px,
                        realized |-> V2.cash[Liquidatee] - V.cash[Liquidatee]]
    /\ UNCHANGED pos_in
    /\ UNCHANGED notPosition

(***************************************************************************)
(* commit on a slab whose position pool is shared by more accounts than it *)
(* has slots: one taker and two makers over MaxPositions positions         *)
(* (matching/commit.rs).                                                   *)
(***************************************************************************)
\* The number of commit calls followed.
MaxSharedCommits == 3

SecondMaker == Maker + 1
SharedMakers == Makers \cup {SecondMaker}
SharedAccounts == Takers \cup SharedMakers

InitSharedSlab ==
    [InitSlabState EXCEPT !.cash = [a \in SharedAccounts |-> 0],
                          !.aggressor_ledger = [a \in SharedAccounts |-> FreeAggressorEntry]]

NoSharedLast == [op |-> "init", err |-> "Ok", hold_id |-> 0, commits |-> 0]

InitShared ==
    /\ shared = InitSharedSlab
    /\ shared_last = NoSharedLast

SharedInsertOrder ==
    /\ \E account_idx \in SharedMakers, side \in RestingSides, price \in RestingPrices,
          qty \in RestingQtys :
        \E r \in {insert_order(shared, account_idx, side, price, qty, 0)} :
            /\ r.slab.next_order_id <= MaxRestingId + 1
            /\ shared' = r.slab
            /\ shared_last' = [shared_last EXCEPT !.op = "insert_order", !.err = r.err,
                                                  !.hold_id = 0]
    /\ UNCHANGED notShared

SharedReserve ==
    /\ \E account_idx \in Takers, side \in ReserveSides, qty \in ReserveQtys,
          expiry_ms \in Expiries :
        \E r \in {reserve(shared, account_idx, side, qty, expiry_ms)} :
            /\ r.slab.next_hold_id <= MaxHoldId + 1
            /\ shared' = r.slab
            /\ shared_last' = [shared_last EXCEPT !.op = "reserve", !.err = r.err,
                                                  !.hold_id = r.hold_id]
    /\ UNCHANGED notShared

SharedCommit ==
    /\ shared_last.commits < MaxSharedCommits
    /\ \E hold_id \in 1 .. MaxHoldId, current_ts \in CommitTimes :
        \E r \in {commit(shared, hold_id, current_ts)} :
            /\ shared' = r.slab
            /\ shared_last' = [shared_last EXCEPT !.op = "commit", !.err = r.err,
                                                  !.hold_id = hold_id,
                                                  !.commits = @ + 1]
    /\ UNCHANGED notShared

(***************************************************************************)
(* update_exposures_verified (crates/model_safety/src/cross_slab.rs) on a  *)
(* portfolio that may be full: a portfolio and the splits of an execution  *)
(* are drawn, and the function is applied to them once.                    *)
(***************************************************************************)
\* Portfolios of so many exposures, MAX_EXPOSURES of them at most.
PortfolioCounts == {0, 1, MAX_EXPOSURES - 1, MAX_EXPOSURES}
\* Slabs of the splits: one the portfolio knows (unless empty) and two it does not.
ExposureSlabs == {0, MAX_EXPOSURES, MAX_EXPOSURES + 1}

\* A portfolio that holds one exposure on each of the slabs 0 .. n - 1.
PortfolioOf(n) ==
    [i \in 1 .. n |-> [slab_idx |-> i - 1, instrument_idx |-> 0, exposure |-> 1]]

ExposureRoutes ==
    { <<s>> : s \in (SplitQtys \X SplitSides \X ExposureSlabs) }
    \cup { <<s, t>> : s \in (SplitQtys \X SplitSides \X ExposureSlabs),
                      t \in (SplitQtys \X SplitSides \X ExposureSlabs) }

NoExposureOut == [op |-> "none", ok |-> TRUE, portfolio |-> <<>>]

InitExposure ==
    /\ exp_in \in [portfolio : {PortfolioOf(n) : n \in PortfolioCounts},
                   route : ExposureRoutes]
    /\ exp_out = NoExposureOut

UpdateExposuresVerified ==
    /\ exp_out.op = "none"
    /\ \E r \in {update_exposures_verified(exp_in.portfolio, exp_in.route, 0)} :
        exp_out' = [op |-> "update_exposures_verified", ok |-> r.ok,
                    portfolio |-> r.portfolio]
    /\ UNCHANGED exp_in
    /\ UNCHANGED notExposure

(***************************************************************************)
(* on_touch on accounts whose profit moves between touches                 *)
(* (crates/model_safety/src/fee_distribution.rs): the vested positive      *)
(* profit of an account rises and falls, and each touch reconciles the     *)
(* account's contribution to the global sum.                               *)
(***************************************************************************)
MaxTouchSteps == 4

TouchAccounts == {1, 2}
TouchLedgers == {-1, 0, 1, 3}
TouchFees == {2}

NoTouchLast == [op |-> "none", acc |-> 0, prev_snapshot |-> 0, vested_now |-> 0]

\* State::default with two accounts at Account::default.
InitTouch ==
    /\ touch = [loss_accum |-> 0, fee_index |-> 0, sum_vested_pos_pnl |-> 0, fee_carry |-> 0,
                accounts |-> [i \in TouchAccounts |-> FeeAccount(0)],
                steps |-> 0]
    /\ touch_last = NoTouchLast

\* The profit ledger of an account moves.
LedgerMoves ==
    /\ touch.steps < MaxTouchSteps
    /\ \E i \in TouchAccounts, pnl \in TouchLedgers :
        /\ pnl # touch.accounts[i].pnl_ledger
        /\ touch' = [touch EXCEPT !.accounts[i].pnl_ledger = pnl, !.steps = @ + 1]
        /\ touch_last' = [NoTouchLast EXCEPT !.op = "ledger", !.acc = i]
    /\ UNCHANGED notTouch

\* Fees come in between touches.
TouchOnFees ==
    /\ touch.steps < MaxTouchSteps
    /\ \E fees \in TouchFees :
        \E r \in {on_fees(touch, fees)} :
            /\ touch' = [r.state EXCEPT !.steps = @ + 1]
            /\ touch_last' = [NoTouchLast EXCEPT !.op = "on_fees"]
    /\ UNCHANGED notTouch

\* An account is touched.
TouchOnTouch ==
    /\ \E i \in TouchAccounts :
        \E r \in {on_touch(touch, i)} :
            /\ touch' = r.state
            /\ touch_last' = [NoTouchLast EXCEPT !.op = "on_touch", !.acc = i,
                                 !.prev_snapshot = touch.accounts[i].vested_pos_snapshot,
                                 !.vested_now = vested_positive_pnl(touch.accounts[i])]
    /\ UNCHANGED notTouch

vars == <<bookVars, slabVars, capVars, marginVars, fundingVars, feeVars, routerLiqVars, liqVars, toxVars, pnlVars, engineVars, warmVars, routeVars, positionVars, sharedVars, exposureVars, touchVars>>

\* The accounts of a component that a specification does not run are not
\* loaded: its variables hold no account data.
NotLoaded == "not loaded"

NoBookLoaded == bids = NotLoaded /\ asks = NotLoaded /\ next_order_id = NotLoaded /\ seqno = NotLoaded /\ receipt = NotLoaded /\ clock = NotLoaded /\ last = NotLoaded

NoSlabLoaded == slab = NotLoaded /\ resv_last = NotLoaded /\ consumed = NotLoaded

NoCapLoaded == router = NotLoaded /\ cap_last = NotLoaded

NoMarginLoaded == portfolio = NotLoaded /\ margin_last = NotLoaded

NoFundingLoaded == funding = NotLoaded /\ fund_last = NotLoaded

NoFeeLoaded == fstate = NotLoaded /\ fee_last = NotLoaded

NoRouterLiqLoaded == portfolios = NotLoaded /\ liquidate_last = NotLoaded

NoLiqLoaded == venue = NotLoaded /\ liq_last = NotLoaded

NoToxLoaded == tox = NotLoaded /\ tox_last = NotLoaded

NoPnlLoaded == venue_pnl = NotLoaded /\ pnl_last = NotLoaded

NoEngineLoaded == engine = NotLoaded /\ engine_last = NotLoaded

NoWarmLoaded == warm = NotLoaded /\ warm_last = NotLoaded

NoRouteLoaded == route_in = NotLoaded /\ route_out = NotLoaded

NoPositionLoaded == pos_in = NotLoaded /\ pos_out = NotLoaded

NoSharedLoaded == shared = NotLoaded /\ shared_last = NotLoaded

NoExposureLoaded == exp_in = NotLoaded /\ exp_out = NotLoaded

NoTouchLoaded == touch = NotLoaded /\ touch_last = NotLoaded

\* A specification starts from the constructed state of the component it runs.
InitBookAlone ==
    InitBook /\ NoSlabLoaded /\ NoCapLoaded /\ NoMarginLoaded /\ NoFundingLoaded /\ NoFeeLoaded /\ NoRouterLiqLoaded /\ NoLiqLoaded /\ NoToxLoaded /\ NoPnlLoaded /\ NoEngineLoaded /\ NoWarmLoaded /\ NoRouteLoaded /\ NoPositionLoaded /\ NoSharedLoaded /\ NoExposureLoaded /\ NoTouchLoaded

InitSlabAlone ==
    NoBookLoaded /\ InitSlab /\ NoCapLoaded /\ NoMarginLoaded /\ NoFundingLoaded /\ NoFeeLoaded /\ NoRouterLiqLoaded /\ NoLiqLoaded /\ NoToxLoaded /\ NoPnlLoaded /\ NoEngineLoaded /\ NoWarmLoaded /\ NoRouteLoaded /\ NoPositionLoaded /\ NoSharedLoaded /\ NoExposureLoaded /\ NoTouchLoaded

InitCapAlone ==
    NoBookLoaded /\ NoSlabLoaded /\ InitCap /\ NoMarginLoaded /\ NoFundingLoaded /\ NoFeeLoaded /\ NoRouterLiqLoaded /\ NoLiqLoaded /\ NoToxLoaded /\ NoPnlLoaded /\ NoEngineLoaded /\ NoWarmLoaded /\ NoRouteLoaded /\ NoPositionLoaded /\ NoSharedLoaded /\ NoExposureLoaded /\ NoTouchLoaded

InitMarginAlone ==
    NoBookLoaded /\ NoSlabLoaded /\ NoCapLoaded /\ InitMargin /\ NoFundingLoaded /\ NoFeeLoaded /\ NoRouterLiqLoaded /\ NoLiqLoaded /\ NoToxLoaded /\ NoPnlLoaded /\ NoEngineLoaded /\ NoWarmLoaded /\ NoRouteLoaded /\ NoPositionLoaded /\ NoSharedLoaded /\ NoExposureLoaded /\ NoTouchLoaded

InitFundingAlone ==
    NoBookLoaded /\ NoSlabLoaded /\ NoCapLoaded /\ NoMarginLoaded /\ InitFunding /\ NoFeeLoaded /\ NoRouterLiqLoaded /\ NoLiqLoaded /\ NoToxLoaded /\ NoPnlLoaded /\ NoEngineLoaded /\ NoWarmLoaded /\ NoRouteLoaded /\ NoPositionLoaded /\ NoSharedLoaded /\ NoExposureLoaded /\ NoTouchLoaded

InitFeeAlone ==
    NoBookLoaded /\ NoSlabLoaded /\ NoCapLoaded /\ NoMarginLoaded /\ NoFundingLoaded /\ InitFee /\ NoRouterLiqLoaded /\ NoLiqLoaded /\ NoToxLoaded /\ NoPnlLoaded /\ NoEngineLoaded /\ NoWarmLoaded /\ NoRouteLoaded /\ NoPositionLoaded /\ NoSharedLoaded /\ NoExposureLoaded /\ NoTouchLoaded

InitRouterLiqAlone ==
    NoBookLoaded /\ NoSlabLoaded /\ NoCapLoaded /\ NoMarginLoaded /\ NoFundingLoaded /\ NoFeeLoaded /\ InitRouterLiq /\ NoLiqLoaded /\ NoToxLoaded /\ NoPnlLoaded /\ NoEngineLoaded /\ NoWarmLoaded /\ NoRouteLoaded /\ NoPositionLoaded /\ NoSharedLoaded /\ NoExposureLoaded /\ NoTouchLoaded

InitLiqAlone ==
    NoBookLoaded /\ NoSlabLoaded /\ NoCapLoaded /\ NoMarginLoaded /\ NoFundingLoaded /\ NoFeeLoaded /\ NoRouterLiqLoaded /\ InitLiq /\ NoToxLoaded /\ NoPnlLoaded /\ NoEngineLoaded /\ NoWarmLoaded /\ NoRouteLoaded /\ NoPositionLoaded /\ NoSharedLoaded /\ NoExposureLoaded /\ NoTouchLoaded

InitToxAlone ==
    NoBookLoaded /\ NoSlabLoaded /\ NoCapLoaded /\ NoMarginLoaded /\ NoFundingLoaded /\ NoFeeLoaded /\ NoRouterLiqLoaded /\ NoLiqLoaded /\ InitTox /\ NoPnlLoaded /\ NoEngineLoaded /\ NoWarmLoaded /\ NoRouteLoaded /\ NoPositionLoaded /\ NoSharedLoaded /\ NoExposureLoaded /\ NoTouchLoaded

InitPnlAlone ==
    NoBookLoaded /\ NoSlabLoaded /\ NoCapLoaded /\ NoMarginLoaded /\ NoFundingLoaded /\ NoFeeLoaded /\ NoRouterLiqLoaded /\ NoLiqLoaded /\ NoToxLoaded /\ InitPnl /\ NoEngineLoaded /\ NoWarmLoaded /\ NoRouteLoaded /\ NoPositionLoaded /\ NoSharedLoaded /\ NoExposureLoaded /\ NoTouchLoaded

InitEngineAlone ==
    NoBookLoaded /\ NoSlabLoaded /\ NoCapLoaded /\ NoMarginLoaded /\ NoFundingLoaded /\ NoFeeLoaded /\ NoRouterLiqLoaded /\ NoLiqLoaded /\ NoToxLoaded /\ NoPnlLoaded /\ InitEngine /\ NoWarmLoaded /\ NoRouteLoaded /\ NoPositionLoaded /\ NoSharedLoaded /\ NoExposureLoaded /\ NoTouchLoaded

InitWarmAlone ==
    NoBookLoaded /\ NoSlabLoaded /\ NoCapLoaded /\ NoMarginLoaded /\ NoFundingLoaded /\ NoFeeLoaded /\ NoRouterLiqLoaded /\ NoLiqLoaded /\ NoToxLoaded /\ NoPnlLoaded /\ NoEngineLoaded /\ InitWarm /\ NoRouteLoaded /\ NoPositionLoaded /\ NoSharedLoaded /\ NoExposureLoaded /\ NoTouchLoaded

InitRouteAlone ==
    NoBookLoaded /\ NoSlabLoaded /\ NoCapLoaded /\ NoMarginLoaded /\ NoFundingLoaded /\ NoFeeLoaded /\ NoRouterLiqLoaded /\ NoLiqLoaded /\ NoToxLoaded /\ NoPnlLoaded /\ NoEngineLoaded /\ NoWarmLoaded /\ InitRoute /\ NoPositionLoaded /\ NoSharedLoaded /\ NoExposureLoaded /\ NoTouchLoaded

InitPositionAlone ==
    NoBookLoaded /\ NoSlabLoaded /\ NoCapLoaded /\ NoMarginLoaded /\ NoFundingLoaded /\ NoFeeLoaded /\ NoRouterLiqLoaded /\ NoLiqLoaded /\ NoToxLoaded /\ NoPnlLoaded /\ NoEngineLoaded /\ NoWarmLoaded /\ NoRouteLoaded /\ InitPosition /\ NoSharedLoaded /\ NoExposureLoaded /\ NoTouchLoaded

InitSharedAlone ==
    NoBookLoaded /\ NoSlabLoaded /\ NoCapLoaded /\ NoMarginLoaded /\ NoFundingLoaded /\ NoFeeLoaded /\ NoRouterLiqLoaded /\ NoLiqLoaded /\ NoToxLoaded /\ NoPnlLoaded /\ NoEngineLoaded /\ NoWarmLoaded /\ NoRouteLoaded /\ NoPositionLoaded /\ InitShared /\ NoExposureLoaded /\ NoTouchLoaded

InitExposureAlone ==
    NoBookLoaded /\ NoSlabLoaded /\ NoCapLoaded /\ NoMarginLoaded /\ NoFundingLoaded /\ NoFeeLoaded /\ NoRouterLiqLoaded /\ NoLiqLoaded /\ NoToxLoaded /\ NoPnlLoaded /\ NoEngineLoaded /\ NoWarmLoaded /\ NoRouteLoaded /\ NoPositionLoaded /\ NoSharedLoaded /\ InitExposure /\ NoTouchLoaded

InitTouchAlone ==
    NoBookLoaded /\ NoSlabLoaded /\ NoCapLoaded /\ NoMarginLoaded /\ NoFundingLoaded /\ NoFeeLoaded /\ NoRouterLiqLoaded /\ NoLiqLoaded /\ NoToxLoaded /\ NoPnlLoaded /\ NoEngineLoaded /\ NoWarmLoaded /\ NoRouteLoaded /\ NoPositionLoaded /\ NoSharedLoaded /\ NoExposureLoaded /\ InitTouch

Next == PlaceOrder \/ CancelOrder \/ CommitFill

\* The book under well-formed traffic.
Spec == InitBookAlone /\ [][Next]_vars

\* Malformed calls: place_order with a bad price or quantity.
MixedPlaceOrder ==
    \E args \in MixedPlaceOrderArgs, now \in ClockNow :
        PlaceOrderCall(args[1], args[2], args[3], args[4], now)

\* cancel_order of any order id, by its owner or by someone else.
MixedCancelOrder ==
    \E owner \in CancelCallers, order_id \in 1 .. MaxOrderId :
        CancelOrderCall(owner, order_id)

\* commit_fill by the router or an intruder, with the current seqno or the
\* one before it.  A call that fails the signer or the seqno check returns
\* before the code reads side, qty, limit_px or the receipt account, so one
\* value of each stands for all of them there.
MixedCommitFill ==
    \E signer \in Signers, expected_seqno \in {seqno} \cup {s \in {seqno - 1} : s >= 0} :
        IF ~router_authorized(signer) \/ ~seqno_matches(seqno, expected_seqno)
        THEN CommitFillCall(signer, expected_seqno, "Buy", 1, 1, TRUE)
        ELSE \E args \in MixedCommitFillArgs :
                CommitFillCall(signer, expected_seqno, args[1], args[2],
                               args[3], args[4])

NextMixed == MixedPlaceOrder \/ MixedCancelOrder \/ MixedCommitFill

\* The book under traffic that includes malformed, unauthorized and stale calls.
SpecMixed == InitBookAlone /\ [][NextMixed]_vars

NextResv == InsertOrder \/ Reserve \/ Commit \/ Cancel \/ SetIndexPrice

\* The reservation protocol: makers rest orders, a taker reserves, commits
\* and cancels holds, the oracle moves the index price.
SpecResv == InitSlabAlone /\ [][NextResv]_vars

NextCap == MintCapForReserve \/ CapDebit \/ BurnCapAndRefund \/ MultiCommit

\* The capability lifecycle of the router.
SpecCap == InitCapAlone /\ [][NextCap]_vars

NextMargin == UpdateExposures \/ ComputeMargin

\* Exposure updates and margin computations on one portfolio.
SpecMargin == InitMarginAlone /\ [][NextMargin]_vars

NextFunding == OpenPositions \/ ApplyFunding \/ UpdateFundingIndex \/ UpdateFunding

\* Funding accrual on one market.
SpecFunding == InitFundingAlone /\ [][NextFunding]_vars

NextFee == LossAccrued \/ OnFees \/ OnTouch

\* Fees coming in and accounts being touched, in any order.
SpecFee == InitFeeAlone /\ [][NextFee]_vars

NextRouterLiq == MarkPortfolio \/ ProcessLiquidate

\* The router's liquidations as the liquidatee's portfolio is marked.
SpecRouterLiq == InitRouterLiqAlone /\ [][NextRouterLiq]_vars

NextLiq ==
    \/ LiqRestOrder
    \/ LiqOpenPosition
    \/ LiqSetMark
    \/ ExecuteLiquidation

\* Liquidations on the slab, as its mark and its book change.
SpecLiq == InitLiqAlone /\ [][NextLiq]_vars

NextTox == ToxConfigure \/ BatchOpen \/ ToxInsertOrder \/ ToxReserve \/ ToxCommit

\* One batch on a slab: orders before and after its opening, and the taker's commits.
SpecTox == InitToxAlone /\ [][NextTox]_vars

NextPnl == ApplyDeltas

\* Liquidity results applied to one venue's totals.
SpecPnl == InitPnlAlone /\ [][NextPnl]_vars

NextEngine == EngineSetup \/ SettleWarmupToCapital \/ Withdraw

\* Withdrawals and settlements on one account of the risk engine.
SpecEngine == InitEngineAlone /\ [][NextEngine]_vars

NextWarm == TradeSettle \/ WithdrawPnl \/ TickWarmup

\* Profits realized, withdrawn through the throttle, and the warmup ticking.
SpecWarm == InitWarmAlone /\ [][NextWarm]_vars

NextRoute == ProcessMultiReserve

\* One route through the venue selection.
SpecRoute == InitRouteAlone /\ [][NextRoute]_vars

NextPosition == UpdatePosition \/ LiqUpdatePosition

\* One fill applied to one position.
SpecPosition == InitPositionAlone /\ [][NextPosition]_vars

NextShared == SharedInsertOrder \/ SharedReserve \/ SharedCommit

\* Commits of one taker against the orders of two makers.
SpecShared == InitSharedAlone /\ [][NextShared]_vars

NextExposure == UpdateExposuresVerified

\* One update of the exposures of a drawn portfolio.
SpecExposure == InitExposureAlone /\ [][NextExposure]_vars

NextTouch == LedgerMoves \/ TouchOnFees \/ TouchOnTouch

\* Touches of accounts whose profit moves.
SpecTouch == InitTouchAlone /\ [][NextTouch]_vars

(***************************************************************************)
(* Properties of the order book instructions.                              *)
(***************************************************************************)
Book == <<bids, asks>>

\* The side an incoming order of this side matches against.
Contra(side, b, a) == IF side = "Buy" THEN a ELSE b

\* Quantity an order received in a list of fills.
RECURSIVE FillOf(_, _)
FillOf(fills, order_id) ==
    IF fills = <<>> THEN 0
    ELSE (IF Head(fills).order_id = order_id THEN Head(fills).qty ELSE 0)
         + FillOf(Tail(fills), order_id)

\* Total quantity resting at prices within the limit.
RECURSIVE QtyWithin(_, _, _)
QtyWithin(orders, side, limit_px) ==
    IF orders = <<>> THEN 0
    ELSE (IF (side = "Buy" /\ Head(orders).price <= limit_px)
             \/ (side = "Sell" /\ Head(orders).price >= limit_px)
          THEN Head(orders).qty ELSE 0)
         + QtyWithin(Tail(orders), side, limit_px)

\* C1 as stated: any commit_fill whose expected_seqno differs from the slab's
\* seqno is rejected with SeqnoMismatch and changes neither the book, nor the
\* seqno, nor the receipt.
C1_MismatchAlwaysSeqnoMismatch ==
    [][(last'.op = "commit_fill" /\ last'.expected_seqno # seqno)
        => (/\ last'.err = "SeqnoMismatch"
            /\ UNCHANGED <<bids, asks, seqno, receipt>>)]_vars

\* C1 amended: a commit_fill whose expected_seqno differs from the slab's seqno
\* is rejected and changes neither the book, nor the seqno, nor the receipt;
\* the error is SeqnoMismatch when the signer is the slab's router and
\* Unauthorized otherwise (the signer is checked first).
C1_MismatchRejected ==
    [][(last'.op = "commit_fill" /\ last'.expected_seqno # seqno)
        => (/\ last'.err = IF last'.signer = ROUTER_ID
                           THEN "SeqnoMismatch" ELSE "Unauthorized"
            /\ UNCHANGED <<bids, asks, seqno, receipt>>)]_vars

\* A stale commit_fill by the router was rejected while orders rest in the book.
C1_Witness ==
    /\ last.op = "commit_fill"
    /\ last.signer = ROUTER_ID
    /\ last.expected_seqno # seqno
    /\ last.err = "SeqnoMismatch"
    /\ asks # <<>>

\* C2: no instruction changes the order book without raising the seqno by one,
\* every successful place_order, cancel_order and commit_fill raises it by
\* exactly one, and so a commit_fill presenting a seqno read before a book
\* change is rejected.
C2_BookChangeRaisesSeqno ==
    [][/\ (Book' # Book => seqno' = seqno + 1)
       /\ ((last'.op \in {"place_order", "cancel_order", "commit_fill"}
            /\ last'.err = "Ok") => seqno' = seqno + 1)]_vars

\* C3: bids are ordered by price descending, asks by price ascending, and
\* orders at one price by non-decreasing creation time.
SideSorted(orders, side) ==
    \A i, j \in 1 .. Len(orders) :
        i < j =>
            /\ IF side = "Buy" THEN orders[i].price >= orders[j].price
                               ELSE orders[i].price <= orders[j].price
            /\ orders[i].price = orders[j].price
                    => orders[i].timestamp <= orders[j].timestamp

C3_BookSorted == SideSorted(bids, "Buy") /\ SideSorted(asks, "Sell")

\* The order just placed was inserted ahead of an older bid at a worse price.
C3_Witness ==
    /\ last.op = "place_order" /\ last.err = "Ok"
    /\ Len(bids) = 2
    /\ bids[1].order_id = last.order_id
    /\ bids[1].price > bids[2].price
    /\ bids[1].timestamp > bids[2].timestamp

\* a is ahead of b: better price, or the same price and inserted earlier
\* (order ids are handed out in insertion order).
Ahead(a, b, side) ==
    \/ (side = "Buy" /\ a.price > b.price)
    \/ (side = "Sell" /\ a.price < b.price)
    \/ (a.price = b.price /\ a.order_id < b.order_id)

C5_NeverWorseThanLimit ==
    last.op = "commit_fill" =>
        /\ \A k \in 1 .. Len(last.fills) :
                IF last.side = "Buy" THEN last.fills[k].price <= last.price
                                     ELSE last.fills[k].price >= last.price
        /\ last.filled_qty > 0 =>
                IF last.side = "Buy" THEN last.vwap_px <= last.price
                                     ELSE last.vwap_px >= last.price

\* A buy stopped at the limit: it filled less than it asked for and a worse
\* priced ask still rests.
C5_Witness ==
    /\ last.op = "commit_fill" /\ last.err = "Ok" /\ last.side = "Buy"
    /\ last.filled_qty > 0 /\ last.filled_qty < last.qty
    /\ asks # <<>> /\ asks[1].price > last.price

\* The contra side after the fills: consumed orders gone, the others reduced.
RECURSIVE AfterFills(_, _)
AfterFills(orders, fills) ==
    IF orders = <<>> THEN <<>>
    ELSE LET o == Head(orders)
             f == FillOf(fills, o.order_id)
         IN  (IF f = o.qty THEN <<>> ELSE <<[o EXCEPT !.qty = o.qty - f]>>)
             \o AfterFills(Tail(orders), fills)

\* C6: a successful commit_fill fills min(qty, quantity resting within the
\* limit), removes every order it consumed and leaves at most one order
\* partially filled.
C6_FillsExactly ==
    [][(last'.op = "commit_fill" /\ last'.err = "Ok") =>
        LET resting == Contra(last'.side, bids, asks)
            partial == {i \in 1 .. Len(resting) :
                            /\ FillOf(last'.fills, resting[i].order_id) > 0
                            /\ FillOf(last'.fills, resting[i].order_id)
                                    < resting[i].qty}
        IN  /\ last'.filled_qty
                    = Min(last'.qty, QtyWithin(resting, last'.side, last'.price))
            /\ receipt'.filled_qty = last'.filled_qty
            /\ Contra(last'.side, bids', asks')
                    = AfterFills(resting, last'.fills)
            /\ \A i \in 1 .. Len(Contra(last'.side, bids', asks')) :
                    Contra(last'.side, bids', asks')[i].qty > 0
            /\ Cardinality(partial) <= 1
            /\ Contra(IF last'.side = "Buy" THEN "Sell" ELSE "Buy", bids', asks')
                    = Contra(IF last'.side = "Buy" THEN "Sell" ELSE "Buy",
                             bids, asks)]_vars

\* A commit_fill consumed one order completely and a second one in part.
C6_Witness ==
    /\ last.op = "commit_fill" /\ last.err = "Ok"
    /\ Len(last.fills) = 2
    /\ last.filled_qty = 3
    /\ Len(Contra(last.side, bids, asks)) = 1
    /\ Contra(last.side, bids, asks)[1].qty = 1

\* C7: a rejected place_order leaves the resting orders, the side counts, the
\* next order id and the seqno as they were.
C7_RejectedPlaceOrderNoEffect ==
    [][(last'.op = "place_order" /\ last'.err # "Ok")
        => UNCHANGED <<bids, asks, next_order_id, seqno>>]_vars

(***************************************************************************)
(* Properties of the reservation protocol.                                 *)
(***************************************************************************)
\* The hold ids consumed so far, by a successful commit or a successful cancel.
Consumed == consumed.committed \cup consumed.cancelled

\* C8: a reservation is consumed at most once.  Once a hold_id has been
\* committed successfully, or cancelled successfully, every later commit and
\* every later cancel of that hold_id fails and leaves the whole slab as it
\* was: no trade of the reservation is executed a second time, no position,
\* cash, order or slice changes.
C8_ConsumedAtMostOnce ==
    [][ (resv_last'.op \in {"commit", "cancel"} /\ resv_last'.hold_id \in Consumed)
            => (resv_last'.err # "Ok" /\ slab' = slab) ]_vars

\* A commit or cancel of an already consumed hold_id has just been rejected,
\* at a moment when one hold has been committed (with trades) and another
\* has been cancelled.
C8_Witness ==
    /\ resv_last.op \in {"commit", "cancel"}
    /\ resv_last.hold_id \in Consumed
    /\ resv_last.err # "Ok"
    /\ consumed.committed # {}
    /\ consumed.cancelled # {}
    /\ slab.trade_count > 0

\* C9: a commit of an existing reservation is rejected with ReservationExpired
\* exactly when the caller's current_ts is later than the reservation's stored
\* expiry_ms, whatever else holds of the reservation (committed or not, index
\* price moved or not), and such a rejection executes no trade and changes
\* nothing in the slab.
C9_ExpiredRejected ==
    [][ resv_last'.op = "commit" =>
            LET i == find_reservation(slab, resv_last'.hold_id)
            IN  /\ (resv_last'.err = "ReservationExpired") <=>
                       (i # NIL /\ resv_last'.current_ts > slab.reservations[i].expiry_ms)
                /\ resv_last'.err = "ReservationExpired" => slab' = slab ]_vars

\* A commit called after the deadline of a reservation that is still
\* uncommitted and holds slices has just been rejected as expired.
C9_Witness ==
    /\ resv_last.op = "commit"
    /\ resv_last.err = "ReservationExpired"
    /\ \E i \in ResvIdxs :
          /\ pool_get(slab.reservations, i)
          /\ slab.reservations[i].hold_id = resv_last.hold_id
          /\ ~slab.reservations[i].committed
          /\ resv_last.current_ts > slab.reservations[i].expiry_ms
          /\ pool_get(slab.slices, slab.reservations[i].slice_head)

\* The quantity that the slices of a chain hold on order o.
RECURSIVE HeldOn(_, _, _)
HeldOn(S, chain, o) ==
    IF chain = <<>> THEN 0
    ELSE (IF S.slices[Head(chain)].order_idx = o THEN S.slices[Head(chain)].qty ELSE 0)
            + HeldOn(S, Tail(chain), o)

\* C10: cancel of an existing, uncommitted reservation succeeds; it lowers the
\* reserved_qty of each order by exactly the quantity the reservation's slices
\* hold on it and changes nothing else of any order (price, qty, owner, slot);
\* it frees every slice of the reservation and the reservation itself, and
\* touches no other slice or reservation; cash, positions, the aggressor
\* ledger and the trade count are unchanged.
C10_CancelReleases ==
    [][ resv_last'.op = "cancel" =>
            LET i == find_reservation(slab, resv_last'.hold_id)
                chain == HeldSlices(slab, resv_last'.hold_id)
                held == {chain[k] : k \in 1 .. Len(chain)}
            IN  (i # NIL /\ ~slab.reservations[i].committed) =>
                    /\ resv_last'.err = "Ok"
                    /\ \A o \in OrderIdxs :
                          /\ slab.orders[o].reserved_qty >= HeldOn(slab, chain, o)
                          /\ slab'.orders[o] =
                                [slab.orders[o] EXCEPT
                                    !.reserved_qty = @ - HeldOn(slab, chain, o)]
                    /\ \A s \in SliceIdxs :
                          IF s \in held
                          THEN ~pool_get(slab'.slices, s)
                          ELSE slab'.slices[s] = slab.slices[s]
                    /\ \A j \in ResvIdxs :
                          IF j = i
                          THEN ~pool_get(slab'.reservations, j)
                          ELSE slab'.reservations[j] = slab.reservations[j]
                    /\ slab'.cash = slab.cash
                    /\ slab'.positions = slab.positions
                    /\ slab'.aggressor_ledger = slab.aggressor_ledger
                    /\ slab'.trade_count = slab.trade_count ]_vars

\* A cancel has just released a reservation that held two slices, while an
\* order it referenced is still resting with nothing reserved on it.
C10_Witness ==
    /\ resv_last.op = "cancel"
    /\ resv_last.err = "Ok"
    /\ resv_last.slices >= 2
    /\ resv_last.hold_id \in consumed.cancelled
    /\ \E o \in OrderIdxs : pool_get(slab.orders, o) /\ slab.orders[o].reserved_qty = 0

\* A cap that authorizes nothing at time `ts`: burned, or past its expiry.
Dead(cap, ts) == cap.burned \/ ts > cap.expiry_ts

\* C11: once a cap is burned, or the time presented is past its expiry, every
\* debit through it is rejected and takes nothing from the cap or from any
\* escrow, and a multi-venue commit over a route holding such a cap is
\* rejected before any venue is committed.
C11_DeadCapRejectsDebit ==
    [][((cap_last'.op = "cap_debit"
         /\ Dead(router.caps[cap_last'.cap], cap_last'.current_ts))
        => (cap_last'.err # "Ok" /\ router' = router))
       /\
       ((cap_last'.op = "process_multi_commit"
         /\ \E c \in 1 .. cap_last'.cap : Dead(router.caps[c], cap_last'.current_ts))
        => (cap_last'.err # "Ok" /\ router' = router))]_vars

\* A debit through a burned cap, within its expiry, has been rejected.
C11_Witness ==
    /\ cap_last.op = "cap_debit"
    /\ cap_last.err = "CapabilityExpired"
    /\ router.caps[cap_last.cap].burned
    /\ router.caps[cap_last.cap].remaining > 0
    /\ cap_last.current_ts <= router.caps[cap_last.cap].expiry_ts

\* The sum of the balances of the escrows in `vs`.
RECURSIVE EscrowTotal(_, _)
EscrowTotal(R, vs) ==
    IF vs = {} THEN 0
    ELSE LET v == CHOOSE x \in vs : TRUE
         IN R.escrows[v] + EscrowTotal(R, vs \ {v})

\* C12: after every completed capability operation (mint_cap_for_reserve,
\* cap_debit, burn_cap_and_refund) the vault's pledged total equals the sum
\* of the escrow balances.
C12_PledgedEqualsEscrows ==
    cap_last.op \in {"mint_cap_for_reserve", "cap_debit", "burn_cap_and_refund"}
    => router.vault.total_pledged = EscrowTotal(router, Venues)

\* C13: a cap_debit that fails (expired cap, scope mismatch, amount above
\* the cap's remaining amount, amount above the escrow balance) changes
\* neither the remaining amount of any cap nor any escrow balance.
C13_FailedDebitNoEffect ==
    [][(cap_last'.op = "cap_debit" /\ cap_last'.err # "Ok")
       => (router'.caps = router.caps /\ router'.escrows = router.escrows)]_vars

\* The unused amount of the caps in `cs` that are scoped to a venue in `vs`.
RECURSIVE Unused(_, _, _)
Unused(R, cs, vs) ==
    IF cs = {} THEN 0
    ELSE LET c == CHOOSE x \in cs : TRUE
         IN (IF R.caps[c].scope_slab \in vs THEN R.caps[c].remaining ELSE 0)
            + Unused(R, cs \ {c}, vs)

\* C14: when a multi-venue commit succeeds on every venue, each cap of the
\* route is burned and its unused remaining amount goes back from its escrow
\* to the vault: the escrow balance and the vault's pledged total both go
\* down by exactly the unused amount.
C14_SuccessBurnsAndRefunds ==
    [][(cap_last'.op = "process_multi_commit" /\ cap_last'.err = "Ok")
       => (/\ \A c \in 1 .. cap_last'.cap : router'.caps[c].burned
           /\ \A v \in Venues :
                router'.escrows[v] = router.escrows[v] - Unused(router, 1 .. cap_last'.cap, {v})
           /\ router'.vault.total_pledged
                = router.vault.total_pledged - Unused(router, 1 .. cap_last'.cap, Venues))]_vars

RECURSIVE NetOf(_, _)
NetOf(P, ks) ==
    IF P = <<>> THEN 0
    ELSE (IF Head(P).instrument_idx \in ks THEN Head(P).exposure ELSE 0) + NetOf(Tail(P), ks)

\* The portfolio holds a non-zero exposure in instrument k.
Exposed(P, k) == \E i \in 1 .. Len(P) : P[i].instrument_idx = k /\ P[i].exposure # 0

\* C16: when the signed exposures of the portfolio in one instrument sum to
\* zero across slabs, that instrument adds nothing to the initial margin,
\* however large its exposures on the single slabs: the margin is the margin
\* of the other instruments, and it is zero when there is no other.
C16_ZeroNetZeroMargin ==
    margin_last.op = "margin"
    => \A k \in InstrumentIdxs :
        (Exposed(portfolio, k) /\ NetOf(portfolio, {k}) = 0)
        => /\ margin_last.im = margin_on_net_verified(NetOf(portfolio, InstrumentIdxs \ {k}), margin_last.avg_price, margin_last.imr_bps)
           /\ (~\E j \in InstrumentIdxs \ {k} : Exposed(portfolio, j)) => margin_last.im = 0

\* The margin has been computed for a portfolio long on one slab and short
\* by the same size on the other, in the only instrument it holds.
C16_Witness ==
    /\ margin_last.op = "margin"
    /\ margin_last.im = 0
    /\ \E k \in InstrumentIdxs :
        /\ get_exposure(portfolio, 0, k) = MaxExposure
        /\ get_exposure(portfolio, 1, k) = -MaxExposure
        /\ ~\E j \in InstrumentIdxs \ {k} : Exposed(portfolio, j)

\* The sum over the instruments `ks` of |net exposure| * price * imr_bps / 10000.
RECURSIVE MarginPerInstrument(_, _, _, _)
MarginPerInstrument(P, ks, avg_price, imr_bps) ==
    IF ks = {} THEN 0
    ELSE LET k == CHOOSE x \in ks : TRUE
         IN (Abs(NetOf(P, {k})) * avg_price * imr_bps) \div BPS_DENOM
            + MarginPerInstrument(P, ks \ {k}, avg_price, imr_bps)

\* C17: the initial margin is the sum over the instruments of |net exposure
\* in the instrument| * price * imr_bps / 10000: exposures net within an
\* instrument only, so a long in one instrument and an equal short in
\* another give a margin that is not zero.
C17_MarginNetsPerInstrument ==
    margin_last.op = "margin"
    => margin_last.im = MarginPerInstrument(portfolio, InstrumentIdxs, margin_last.avg_price, margin_last.imr_bps)

\* C18: two positions of exactly opposite sizes, funded under the same
\* market index from the same offset, have received payments that sum to
\* exactly zero.
C18_OppositePaymentsCancel ==
    (/\ funding.positions # <<>>
     /\ funding.positions[1].base_size = -funding.positions[2].base_size
     /\ funding.positions[1].funding_index_offset = funding.positions[2].funding_index_offset)
    => funding.positions[1].realized_pnl + funding.positions[2].realized_pnl = 0

\* Two opposite positions have both been funded up to a non-zero index.
C18_Witness ==
    /\ funding.positions # <<>>
    /\ funding.positions[1].base_size = -funding.positions[2].base_size
    /\ funding.positions[1].funding_index_offset = funding.market.cumulative_funding_index
    /\ funding.positions[2].funding_index_offset = funding.market.cumulative_funding_index
    /\ funding.market.cumulative_funding_index # 0
    /\ funding.positions[1].realized_pnl # 0
    /\ fund_last.op = "apply_funding"

\* C19: applying funding to a position a second time in a row, the market
\* index unchanged in between, leaves its pnl and its funding offset as the
\* first application left them.
C19_ApplyTwiceIsOnce ==
    [][fund_last'.second => funding'.positions = funding.positions]_vars

\* Funding has been applied twice in a row to a position that the first
\* application paid.
C19_Witness ==
    /\ fund_last.op = "apply_funding"
    /\ fund_last.second
    /\ fund_last.first_payment # 0

\* The largest move of the cumulative index in one period: the slab's rate
\* clamp, 500 bps, in the 1e6 scale of the index.
PeriodBound == (MAX_FUNDING_RATE_BPS * DEVIATION_SCALE) \div BPS_DENOM

\* C20: one update_funding_index call moves the cumulative funding index by
\* no more than the per-period bound, however far mark is from oracle and
\* however long dt is.
C20_IndexStepClamped ==
    [][fund_last'.op = "update_funding_index"
       => Abs(funding'.market.cumulative_funding_index
              - funding.market.cumulative_funding_index) <= PeriodBound]_vars

(***************************************************************************)
(* Fee distribution.                                                       *)
(***************************************************************************)

\* C21: over any sequence of on_fees and on_touch the fees credited to the
\* accounts never exceed the fees made distributable (received less the part
\* that covered losses).
C21_CreditedWithinDistributable ==
    fstate.total_credited <= fstate.total_distributable

\* C22: on_fees(F) with loss accumulator L takes min(F, L) off the loss
\* accumulator and makes F - min(F, L) distributable; when F <= L it changes
\* neither the fee index nor fee_carry.
C22_LossCoveredFirst ==
    [][fee_last'.op = "on_fees" =>
         (/\ fstate'.loss_accum = fstate.loss_accum - Min(fee_last'.fees, fstate.loss_accum)
          /\ fee_last'.cover = Min(fee_last'.fees, fstate.loss_accum)
          /\ fee_last'.distributable = fee_last'.fees - Min(fee_last'.fees, fstate.loss_accum)
          /\ (fee_last'.fees <= fstate.loss_accum =>
                 (fstate'.fee_index = fstate.fee_index /\ fstate'.fee_carry = fstate.fee_carry)))]_vars

\* Fees that covered a loss in part and were distributed in part.
C22_Witness ==
    /\ fee_last.op = "on_fees"
    /\ fee_last.cover > 0
    /\ fee_last.distributable > 0

\* C23: on_fees with a positive remainder and no vested positive profit
\* leaves the fee index alone and holds the remainder in fee_carry; with a
\* positive sum it distributes the remainder together with what was carried
\* and leaves fee_carry zero.
C23_RemainderCarried ==
    [][(fee_last'.op = "on_fees" /\ fee_last'.distributable > 0) =>
         IF fstate.sum_vested_pos_pnl = 0
         THEN /\ fstate'.fee_index = fstate.fee_index
              /\ fstate'.fee_carry = fstate.fee_carry + fee_last'.distributable
         ELSE /\ fstate'.fee_index = fstate.fee_index
                    + ((fee_last'.distributable + fstate.fee_carry) * FEE_SCALE)
                          \div fstate.sum_vested_pos_pnl
              /\ fstate'.fee_carry = 0]_vars

\* Fees carried while nobody had vested profit went out with a later distribution.
C23_Witness ==
    /\ fee_last.op = "on_fees"
    /\ fee_last.distributable > 0
    /\ fee_last.carry_before > 0
    /\ fstate.sum_vested_pos_pnl > 0
    /\ fstate.fee_carry = 0
    /\ fstate.fee_index > fee_last.index_before

\* C24: no on_fees and no on_touch lowers the global fee index.
C24_FeeIndexMonotonic ==
    [][fstate'.fee_index >= fstate.fee_index]_vars

\* A second distribution raised an index that was already positive.
C24_Witness ==
    /\ fee_last.op = "on_fees"
    /\ fee_last.index_before > 0
    /\ fstate.fee_index > fee_last.index_before

\* C25: on_touch credits nothing to an account whose profit is zero or
\* negative, whatever the global index and the account's snapshot of it.
C25_NoCreditToLosers ==
    [][(fee_last'.op = "on_touch" /\ fstate.accounts[fee_last'.acc].pnl_ledger <= 0) =>
         (/\ fee_last'.credited = 0
          /\ fstate'.accounts[fee_last'.acc].fee_accrued
                = fstate.accounts[fee_last'.acc].fee_accrued)]_vars

\* A losing account was touched while the index was ahead of its snapshot.
C25_Witness ==
    /\ fee_last.op = "on_touch"
    /\ fstate.accounts[fee_last.acc].pnl_ledger <= 0
    /\ fee_last.index_before > fee_last.user_index_before

(***************************************************************************)
(* Liquidation.                                                            *)
(***************************************************************************)

\* C26: the router accepts a liquidation only of a portfolio whose equity is
\* strictly below its maintenance margin; a rejected liquidation changes
\* neither the liquidatee's portfolio nor the liquidator's.
C26_LiquidationOnlyBelowMaintenance ==
    [][liquidate_last'.op = "process_liquidate" =>
         (/\ (liquidate_last'.err = "Ok" =>
                 portfolios.liquidatee.equity < portfolios.liquidatee.mm)
          /\ (liquidate_last'.err # "Ok" =>
                 (/\ portfolios'.liquidatee = portfolios.liquidatee
                  /\ portfolios'.liquidator = portfolios.liquidator)))]_vars

\* A liquidation of a portfolio exactly at its maintenance margin was rejected.
C26_Witness ==
    /\ liquidate_last.op = "process_liquidate"
    /\ liquidate_last.err = "NotLiquidatable"
    /\ portfolios.liquidatee.equity = portfolios.liquidatee.mm

\* C27: every fill of a liquidation is at a resting price within
\* price_band_bps of the mark: not below mark * (1 - band) when it sells to
\* close a long, not above mark * (1 + band) when it buys to close a short.
C27_FillsWithinBand ==
    liq_last.op = "execute_liquidation" =>
        \A k \in 1 .. Len(liq_last.fills) :
            /\ (liq_last.side = "Sell" =>
                   liq_last.fills[k].price * BPS_DENOM
                     >= liq_last.mark_price * (BPS_DENOM - liq_last.price_band_bps))
            /\ (liq_last.side = "Buy" =>
                   liq_last.fills[k].price * BPS_DENOM
                     <= liq_last.mark_price * (BPS_DENOM + liq_last.price_band_bps))

\* A long was sold into the best bid and the sweep stopped at a bid below the band.
C27_Witness ==
    /\ liq_last.op = "execute_liquidation"
    /\ liq_last.side = "Sell"
    /\ Len(liq_last.fills) = 1
    /\ \E o \in LiqOrderIdxs :
          /\ venue.orders[o].used
          /\ venue.orders[o].side = "Buy"
          /\ venue.orders[o].price * BPS_DENOM
                < liq_last.mark_price * (BPS_DENOM - liq_last.price_band_bps)

(***************************************************************************)
(* Anti-toxicity rules of commit.                                          *)
(***************************************************************************)

\* The relative move of the index since the reservation exceeds the kill band.
Moved(S, resv_idx) ==
    Abs(S.index_price - S.reservations[resv_idx].reserve_oracle_px) * BPS_DENOM
        > S.header.kill_band_bps * S.reservations[resv_idx].reserve_oracle_px

\* A kill band is configured, and the move in whole basis points (rounded
\* down) exceeds it.
MovedBps(S, resv_idx) ==
    /\ S.header.kill_band_bps # 0
    /\ (Abs(S.index_price - S.reservations[resv_idx].reserve_oracle_px) * BPS_DENOM)
           \div S.reservations[resv_idx].reserve_oracle_px > S.header.kill_band_bps

C29_TaxOnOverlap ==
    tox.total_tax =
        (Min(tox.slab.aggressor_ledger[Taker].buy_notional,
             tox.slab.aggressor_ledger[Taker].sell_notional) * tox.slab.header.as_fee_k)
            \div BPS_DENOM

\* What the base maker fee does to the maker's cash on a fill of this notional.
BaseMakerFee(S, notional) ==
    IF S.header.maker_fee >= 0
    THEN -((notional * S.header.maker_fee) \div BPS_DENOM)
    ELSE (notional * (-S.header.maker_fee)) \div BPS_DENOM

\* C30: with the JIT penalty switched on, a maker whose order was created
\* after the batch opened gets no rebate; a maker whose order predates the
\* batch open, and any maker with a non-negative fee, is charged the base fee.
C30_LateMakerNoRebate ==
    (tox_last.op = "commit" /\ tox_last.err = "Ok") =>
        /\ (/\ tox.slab.header.jit_penalty_on
            /\ tox_last.created_ms > tox.slab.batch_open_ms
            /\ tox.slab.header.maker_fee < 0) => tox_last.maker_delta = 0
        /\ (tox_last.created_ms < tox.slab.batch_open_ms \/ tox.slab.header.maker_fee >= 0)
              => tox_last.maker_delta = BaseMakerFee(tox.slab, tox_last.notional)

\* A fill of an order created after the batch opened paid no rebate.
C30_Witness ==
    /\ tox_last.op = "commit"
    /\ tox_last.err = "Ok"
    /\ tox.slab.header.jit_penalty_on
    /\ tox.slab.header.maker_fee < 0
    /\ tox_last.created_ms > tox.slab.batch_open_ms
    /\ tox_last.notional > 0
    /\ tox_last.maker_delta = 0

\* C30 as stated: a maker whose order was created after the batch opened
\* gets no rebate, whatever the header's switch.
C30_LateMakerNeverRebated ==
    (tox_last.op = "commit" /\ tox_last.err = "Ok") =>
        /\ (/\ tox_last.created_ms > tox.slab.batch_open_ms
            /\ tox.slab.header.maker_fee < 0) => tox_last.maker_delta = 0
        /\ (tox_last.created_ms < tox.slab.batch_open_ms \/ tox.slab.header.maker_fee >= 0)
              => tox_last.maker_delta = BaseMakerFee(tox.slab, tox_last.notional)

(***************************************************************************)
(* VenuePnl.                                                               *)
(***************************************************************************)

\* C31: an apply_deltas that fails on an overflow has modified none of maker
\* fee credits, venue fees and realized pnl.
C31_OverflowChangesNothing ==
    [][(pnl_last'.op = "apply_deltas" /\ ~pnl_last'.ok) => venue_pnl' = venue_pnl]_vars

(***************************************************************************)
(* Withdrawal after a loss.                                                *)
(***************************************************************************)

\* What a settlement takes out of capital: min(capital, -pnl) of a loss.
LossPaid(E) == IF E.pnl < 0 THEN Min(E.capital, -E.pnl) ELSE 0

\* C32: a withdraw first settles a negative pnl against capital (capital falls
\* by min(capital, -pnl) and pnl rises by as much, whatever the warmup slope)
\* and succeeds only if the amount does not exceed the remaining capital; with
\* capital 10,000, pnl -9,000 and no position, withdraw(10,000) fails and
\* leaves capital 1,000 and pnl 0, and withdraw(1,000) then succeeds.
C32_WithdrawSettlesLossFirst ==
    [][engine_last'.op = "withdraw" =>
        /\ engine'.pnl = engine.pnl + LossPaid(engine)
        /\ IF engine_last'.err = "Ok"
           THEN /\ engine_last'.amount <= engine.capital - LossPaid(engine)
                /\ engine'.capital = engine.capital - LossPaid(engine) - engine_last'.amount
           ELSE engine'.capital = engine.capital - LossPaid(engine)
        /\ engine_last'.amount > engine.capital - LossPaid(engine)
              => engine_last'.err = "InsufficientBalance"
        /\ (engine.capital = 10000 /\ engine.pnl = -9000 /\ engine.position_size = 0
              /\ engine_last'.amount = 10000)
              => (engine_last'.err = "InsufficientBalance"
                  /\ engine'.capital = 1000 /\ engine'.pnl = 0)
        /\ (engine.capital = 1000 /\ engine.pnl = 0 /\ engine.position_size = 0
              /\ engine_last'.amount = 1000)
              => (engine_last'.err = "Ok" /\ engine'.capital = 0)]_vars

\* After the failed withdraw(10,000) that settled the loss with a zero slope,
\* withdraw(1,000) has emptied the account.
C32_Witness ==
    /\ engine_last.op = "withdraw"
    /\ engine_last.err = "Ok"
    /\ engine_last.amount = 1000
    /\ engine_last.calls = 2
    /\ engine.warmup_slope_per_step = 0
    /\ engine.warmed_neg_total = 9000
    /\ engine.capital = 0
    /\ engine.vault = 9000

(***************************************************************************)
(* The warmup throttle.                                                    *)
(***************************************************************************)

\* What withdraw_pnl lets the user take out of its pnl.
Allowed(s, uid, amount, current_step) ==
    s.users[uid].pnl_ledger - withdraw_pnl(s, uid, amount, current_step).users[uid].pnl_ledger

\* C39: tick_warmup never lowers what withdraw_pnl allows: for every user,
\* amount and step, the withdrawal allowed after the tick is at least the one
\* allowed before it.
C39_TickNeverLowersCap ==
    [][warm_last'.op = "tick_warmup" =>
        \A uid \in WarmUsers, amount \in WarmAmounts, current_step \in CurrentSteps :
            Allowed(warm', uid, amount, current_step)
                >= Allowed(warm, uid, amount, current_step)]_vars

(***************************************************************************)
(* Venue selection.                                                        *)
(***************************************************************************)

\* Price a is strictly better than price b for the side.
BetterPx(a, b, side) == IF side = "Buy" THEN a < b ELSE a > b

\* C40: every selected venue is within the user's limit, no unselected venue
\* within the limit has a strictly better price than a selected one, and the
\* quantity taken from the selected venues does not exceed the target.
C40_BestPriceFirstBounded ==
    route_out.op = "process_multi_reserve" =>
        /\ \A i \in DOMAIN route_out.results :
              route_out.results[i].selected =>
                  /\ within_limit(route_out.results[i], route_in.limit_px, route_in.side)
                  /\ \A j \in DOMAIN route_out.results :
                        (/\ ~route_out.results[j].selected
                         /\ within_limit(route_out.results[j], route_in.limit_px, route_in.side))
                        => ~BetterPx(route_out.results[j].vwap_px,
                                     route_out.results[i].vwap_px, route_in.side)
        /\ route_out.total_filled <= route_in.target_qty
        /\ route_out.selected_count
              = Cardinality({i \in DOMAIN route_out.results : route_out.results[i].selected})

\* A route whose requests came worst price first: the best venue within the
\* limit was selected, a worse one within the limit was left out, and one
\* beyond the limit was skipped.
C40_Witness ==
    /\ route_out.op = "process_multi_reserve"
    /\ route_out.err = "Ok"
    /\ route_in.side = "Buy"
    /\ Len(route_in.slab_requests) = 3
    /\ route_in.slab_requests[1][2] = 3
    /\ route_in.slab_requests[2][2] = 2
    /\ route_in.slab_requests[3][2] = 1
    /\ route_out.results[1].selected
    /\ ~route_out.results[2].selected
    /\ ~route_out.results[3].selected
    /\ route_out.total_filled = route_in.target_qty

(***************************************************************************)
(* Positions.                                                              *)
(***************************************************************************)

\* The fill reduces the position: same sign afterwards, smaller magnitude.
Reduces(in) ==
    /\ in.old_qty + in.qty_delta # 0
    /\ (in.old_qty > 0) = (in.old_qty + in.qty_delta > 0)
    /\ Abs(in.old_qty + in.qty_delta) < Abs(in.old_qty)

\* C33: a fill that reduces a position without closing or flipping it realizes
\* profit or loss on the reduced quantity at (fill price - entry price) and
\* leaves the position's entry price unchanged.
C33_ReductionRealizesPartially ==
    (pos_out.op # "none" /\ Reduces(pos_in)) =>
        /\ pos_out.qty = pos_in.old_qty + pos_in.qty_delta
        /\ pos_out.entry_px = pos_in.entry_px
        /\ pos_out.realized = (-pos_in.qty_delta) * (pos_in.price - pos_in.entry_px)

(***************************************************************************)
(* Positions under liquidation.                                            *)
(***************************************************************************)

PositionQty(V, a) == IF V.positions[a].used THEN V.positions[a].qty ELSE 0

\* The signed position sizes of the instrument's accounts, summed.
PositionSum(V) == PositionQty(V, Liquidatee) + PositionQty(V, LiqMaker)

\* C34: the signed position sizes of all accounts of an instrument keep their
\* sum: each executed trade changes the taker's and the maker's positions by
\* equal and opposite amounts, once each.
C34_PositionsNet ==
    [][liq_last'.op = "execute_liquidation" => PositionSum(venue') = PositionSum(venue)]_vars

\* The quantity a liquidation closed, with the sign of the position it closed.
ClosedQty(r) == IF r.side = "Sell" THEN fills_qty(r.fills) ELSE -fills_qty(r.fills)

\* C37: a liquidation that closes only part of a position, for lack of contra
\* liquidity inside the price band, realizes the profit or loss of the closed
\* quantity only.
C37_PartialCloseRealizesClosedOnly ==
    [][(/\ liq_last'.op = "execute_liquidation"
        /\ liq_last'.err = "Ok"
        /\ 0 < fills_qty(liq_last'.fills)
        /\ fills_qty(liq_last'.fills) < Abs(PositionQty(venue, Liquidatee)))
       => liq_last'.realized_pnl =
              calculate_pnl(ClosedQty(liq_last'), venue.positions[Liquidatee].entry_px,
                            fills_notional(liq_last'.fills) \div fills_qty(liq_last'.fills))]_vars

(***************************************************************************)
(* Failed commits.                                                         *)
(***************************************************************************)

\* C35: a commit that returns an error leaves the slab state unchanged, so
\* that repeated commit attempts execute no slice of a reservation twice.
C35_FailedCommitChangesNothing ==
    [][(shared_last'.op = "commit" /\ shared_last'.err # "Ok") => shared' = shared]_vars

(***************************************************************************)
(* Exposure updates.                                                       *)
(***************************************************************************)

\* What the splits of a route add to the exposure on a slab.
RECURSIVE RouteDelta(_, _, _)
RouteDelta(route, slab_idx, i) ==
    IF i > Len(route) THEN 0
    ELSE (IF route[i][3] = slab_idx THEN signed_qty(route[i][1], route[i][2]) ELSE 0)
         + RouteDelta(route, slab_idx, i + 1)

\* C36: update_exposures_verified is atomic: on an error no exposure of the
\* portfolio has changed, on success the update of every split is applied.
C36_ExposureUpdateAtomic ==
    exp_out.op = "update_exposures_verified" =>
        IF exp_out.ok
        THEN \A i \in 1 .. Len(exp_in.route) :
                get_exposure(exp_out.portfolio, exp_in.route[i][3], 0)
                  = get_exposure(exp_in.portfolio, exp_in.route[i][3], 0)
                    + RouteDelta(exp_in.route, exp_in.route[i][3], 1)
        ELSE exp_out.portfolio = exp_in.portfolio

(***************************************************************************)
(* The global sum of vested positive profit.                               *)
(***************************************************************************)

\* The vested-profit snapshots stored on the accounts, summed.
SnapshotSum(s) == s.accounts[1].vested_pos_snapshot + s.accounts[2].vested_pos_snapshot

\* C38: after any sequence of on_touch calls the global sum of vested
\* positive profit equals the sum of the snapshots stored on the accounts.
C38_SumEqualsSnapshots ==
    touch.sum_vested_pos_pnl = SnapshotSum(touch)

\* Both accounts counted, and a touch has just lowered one account's part.
C38_Witness ==
    /\ touch_last.op = "on_touch"
    /\ touch_last.vested_now < touch_last.prev_snapshot
    /\ 0 < touch_last.vested_now
    /\ \A i \in TouchAccounts : touch.accounts[i].vested_pos_snapshot > 0
    /\ touch.sum_vested_pos_pnl = SnapshotSum(touch)

====
